---- MODULE Spec2Model ----
(***************************************************************************)
(* Text-protocol result-set reader of the SingleStoreDB Python client       *)
(* accelerator: read_bytes, read_packet, check_packet_is_eof,               *)
(* read_row_from_packet and read_rowdata_packet, with the StateObject kept  *)
(* on the result between calls.                                             *)
(*                                                                          *)
(* Byte strings are sequences of 0..255.  Python objects are records; the   *)
(* Python value None is the string "None" where the attribute holds an      *)
(* object and NoneInt where it holds a number.                              *)
(***************************************************************************)
EXTENDS Integers, Sequences, FiniteSets, TLC

VARIABLES
    rfile,      \* bytes the connection's byte source has not delivered yet
    conn,       \* the connection object: _sock, _rfile, _next_seq_id, _result
    res,        \* the result object: _state, rows, affected_rows, ...
    state,      \* the StateObject held in res._state (meaningful iff res.has_state)
    py_rows,    \* contents of the list object state.py_rows / res.rows refer to
    call,       \* the last call of read_rowdata_packet: arguments, outcome, log
    hist,       \* history over all calls on this result (for the properties)
    build,      \* what the build and the heap make of the undefined reads
    wire,       \* what the server sent: the packets the byte stream was built from
    unit        \* a single function taken on its own: its arguments and result

vars == <<rfile, conn, res, state, py_rows, call, hist, build, wire, unit>>

\* ------------------------------------------------------------------ bounds
MaxPackets == 3      \* packets the server sends for the result set
MaxCalls == 2        \* calls of read_rowdata_packet on the result

\* ------------------------------------------------------- program constants
MYSQL_FLAG_UNSIGNED == 32
MYSQL_TYPE_TINY == 1
MYSQL_TYPE_SHORT == 2
MYSQL_TYPE_LONG == 3
MYSQL_TYPE_LONGLONG == 8
MYSQL_TYPE_INT24 == 9
MYSQL_TYPE_VARCHAR == 15
MYSQL_TYPE_STRING == 254
MYSQL_TYPE_VAR_STRING == 253
MYSQL_COLUMN_NULL == 251
MYSQL_COLUMN_UNSIGNED_CHAR == 251
MYSQL_COLUMN_UNSIGNED_SHORT == 252
MYSQL_COLUMN_UNSIGNED_INT24 == 253
MYSQL_COLUMN_UNSIGNED_INT64 == 254
MYSQL_SERVER_MORE_RESULTS_EXISTS == 8
MYSQL_MAX_PACKET_LEN == 16777215
ERROR_PACKET_BYTE == 255
EOF_PACKET_BYTE == 254
EOF_PACKET_MAX_LEN == 9
NoneInt == 0 - 1     \* how the model writes an integer attribute holding None

\* ------------------------------------------------------------ byte strings
Byte == 0..255

Take(s, n) == SubSeq(s, 1, IF n < Len(s) THEN n ELSE Len(s))
Drop(s, n) == SubSeq(s, (IF n < Len(s) THEN n ELSE Len(s)) + 1, Len(s))

Min(a, b) == IF a < b THEN a ELSE b

\* bitwise AND of a value with a single-bit mask (bit = 2^k)
BitAnd(v, bit) == IF (v \div bit) % 2 = 1 THEN bit ELSE 0

\* one entry of a call's log
Ev(ev, x, a, b) == [ev |-> ev, x |-> x, a |-> a, b |-> b]

\* ------------------------------------------------------------- the errors
\* raise_exception: set the pending exception to the connection's err_type
raise_exception(w, err_type) ==
    [w EXCEPT !.exc = err_type,
              !.log = Append(@, Ev("raise", err_type, 0, 0))]

\* force_close: close the socket, clear any pending exception, and clear
\* connection._sock and connection._rfile
force_close(w) ==
    [w EXCEPT !.conn = [@ EXCEPT !.sock_closed = TRUE,
                                 !._sock = "None",
                                 !._rfile = "None"],
              !.exc = "none",
              !.log = Append(@, Ev("force_close", "", 0, 0))]

\* ------------------------------------------------------------- read_bytes
\* The byte source's read(n): a blocking buffered read delivers n bytes, or
\* fewer when the stream ends first.
py_read(rf, num_bytes) == Take(rf, num_bytes)

short_read_error(w) ==
    raise_exception(force_close(w), "OperationalError")

read_bytes(w, num_bytes) ==
    LET py_data == py_read(w.rfile, num_bytes)
        w1 == [w EXCEPT !.rfile = Drop(@, num_bytes),
                        !.log = Append(@, Ev("read", "", num_bytes, Len(py_data)))]
    IN  IF Len(py_data) < num_bytes
        THEN [ok |-> FALSE, data |-> <<>>, w |-> short_read_error(w1)]
        ELSE [ok |-> TRUE, data |-> py_data, w |-> w1]

\* ------------------------------------------------------------ read_packet
\* the 3-byte little-endian length of a packet header
bytes_to_read_low_byte(hdr) == hdr[1]

bytes_to_read(hdr) == hdr[1] + 256 * hdr[2] + 65536 * hdr[3]

\* the sequence check on a physical packet
seq_accepted(packet_number, next_seq_id) == packet_number = next_seq_id

\* the sequence number expected after an accepted physical packet
next_seq_nowrap(next_seq_id) == next_seq_id + 1

next_seq(next_seq_id) == (next_seq_id + 1) % 256

\* the exception type reported for a sequence mismatch
seq_error_type_internal(packet_number) == "InternalError"

seq_error_type(packet_number) ==
    IF packet_number = 0 THEN "OperationalError" ELSE "InternalError"

seq_error(w, packet_number) ==
    raise_exception(force_close(w), seq_error_type(packet_number))

is_error_packet(buff) == Len(buff) > 0 /\ buff[1] = ERROR_PACKET_BYTE

\* connection._result.unbuffered_active <- False when it is True
mark_unbuffered_kept(w) == w

mark_unbuffered_inactive(w) ==
    IF w.conn._result = "res" /\ w.res.unbuffered_active
    THEN [w EXCEPT !.res = [@ EXCEPT !.unbuffered_active = FALSE]]
    ELSE w

\* connection._raise_mysql_exception(payload): the connection raises the
\* typed exception it builds from the raw error payload
raise_mysql_exception(w, buff) ==
    [w EXCEPT !.exc = "MySQLError",
              !.log = Append(@, Ev("raise_mysql_exception", "MySQLError", Len(buff), 0))]

\* whether the physical packet just read ends the logical payload
ends_payload_inclusive(n) == n <= MYSQL_MAX_PACKET_LEN

ends_payload(n) == n # MYSQL_MAX_PACKET_LEN /\ n < MYSQL_MAX_PACKET_LEN

RECURSIVE read_packet_loop(_, _, _)

\* the rest of a round: st1 is the state after the header was accepted, n
\* the body's length, d the read of the body
read_packet_body(st1, n, d, py_buff) ==
    IF ~d.ok
    THEN [ok |-> FALSE, st |-> st1, w |-> d.w, buff |-> <<>>]
    ELSE IF ends_payload(n)
    THEN [ok |-> TRUE, st |-> st1, w |-> d.w, buff |-> py_buff \o d.data]
    ELSE read_packet_loop(st1, d.w, py_buff \o d.data)

\* the header of a round: h is the read of its 4 bytes
read_packet_header(st, h, py_buff) ==
    IF ~h.ok
    THEN [ok |-> FALSE, st |-> st, w |-> h.w, buff |-> <<>>]
    ELSE IF ~seq_accepted(h.data[4], st.next_seq_id)
    THEN [ok |-> FALSE, st |-> st, buff |-> <<>>,
          w |-> seq_error(
                  [h.w EXCEPT !.log = Append(@,
                      Ev("hdr", "rejected", h.data[4], st.next_seq_id))],
                  h.data[4])]
    ELSE read_packet_body(
            [st EXCEPT !.next_seq_id = next_seq(@)],
            bytes_to_read(h.data),
            read_bytes(
                [h.w EXCEPT !.log = @ \o
                    << Ev("hdr", "accepted", h.data[4], st.next_seq_id),
                       Ev("seq", "", st.next_seq_id, next_seq(st.next_seq_id)) >>],
                bytes_to_read(h.data)),
            py_buff)

\* while (1): one physical packet per round
read_packet_loop(st, w, py_buff) ==
    read_packet_header(st, read_bytes(w, 4), py_buff)

\* after the loop: r is the assembled payload, or the failure to read it
read_packet_payload(r) ==
    IF ~r.ok
    THEN r
    ELSE IF is_error_packet(r.buff)
    THEN [ok |-> FALSE, st |-> r.st, buff |-> <<>>,
          w |-> raise_mysql_exception(
                  mark_unbuffered_inactive([r.w EXCEPT !.framed = Append(@, r.buff)]),
                  r.buff)]
    ELSE [r EXCEPT !.w = [@ EXCEPT !.framed = Append(@, r.buff)]]

read_packet(st, w) == read_packet_payload(read_packet_loop(st, w, <<>>))

\* ----------------------------------------------------- length-coded strings
\* A value too large for the checker's integers: every use compares it with
\* the number of bytes left in a packet, where it acts as any larger value.
HUGE == 32767 * 65536 + 65535

RECURSIVE le_value(_)
\* the little-endian unsigned value of a byte string, saturating at HUGE
le_value(bytes) ==
    IF bytes = <<>> THEN 0
    ELSE LET hi == le_value(Tail(bytes))
         IN  IF hi >= 8388608 THEN HUGE ELSE bytes[1] + 256 * hi

\* read_length_encoded_integer on the cursor `data`
read_length_encoded_integer(data) ==
    IF Len(data) = 0
    THEN [is_null |-> TRUE, value |-> 0, data |-> data]
    ELSE
      LET c == data[1]
          rest == Tail(data)
      IN  IF c = MYSQL_COLUMN_NULL
          THEN [is_null |-> TRUE, value |-> 0, data |-> rest]
          ELSE IF c < MYSQL_COLUMN_UNSIGNED_CHAR
          THEN [is_null |-> FALSE, value |-> c, data |-> rest]
          ELSE IF c = MYSQL_COLUMN_UNSIGNED_SHORT
          THEN IF Len(rest) < 2
               THEN [is_null |-> TRUE, value |-> 0, data |-> rest]
               ELSE [is_null |-> FALSE, value |-> le_value(Take(rest, 2)),
                     data |-> Drop(rest, 2)]
          ELSE IF c = MYSQL_COLUMN_UNSIGNED_INT24
          THEN IF Len(rest) < 3
               THEN [is_null |-> TRUE, value |-> 0, data |-> rest]
               ELSE LET low == rest[1]
                        high == rest[2] + 256 * rest[3]
                    IN  [is_null |-> FALSE,
                         value |-> IF high >= 32768 THEN HUGE ELSE low + high * 65536,
                         data |-> Drop(rest, 3)]
          ELSE IF c = MYSQL_COLUMN_UNSIGNED_INT64
          THEN IF Len(rest) < 8
               THEN [is_null |-> TRUE, value |-> 0, data |-> rest]
               ELSE [is_null |-> FALSE, value |-> le_value(Take(rest, 8)),
                     data |-> Drop(rest, 8)]
          ELSE [is_null |-> TRUE, value |-> 0, data |-> rest]

\* read_length_coded_string on the cursor `data`: out is the cell's bytes;
\* r is the length prefix as read_length_encoded_integer returned it
length_coded_bytes(r) ==
    IF r.is_null
    THEN [is_null |-> TRUE, out |-> <<>>, data |-> r.data]
    ELSE [is_null |-> FALSE,
          out |-> Take(r.data, Min(r.value, Len(r.data))),
          data |-> Drop(r.data, Min(r.value, Len(r.data)))]

read_length_coded_string(data) ==
    length_coded_bytes(read_length_encoded_integer(data))

\* ------------------------------------------------------------- cell values
PyNone == [t |-> "None", i |-> 0, s |-> <<>>]
PyInt(v) == [t |-> "int", i |-> v, s |-> <<>>]
PyStr(cp) == [t |-> "str", i |-> 0, s |-> cp]
PyBytes(b) == [t |-> "bytes", i |-> 0, s |-> b]

IsSpace(b) == b \in 9..13 \/ b = 32
IsDigit(b) == b \in 48..57

RECURSIVE digits_value(_, _)
\* the value of the leading run of decimal digits of s, after acc
digits_value(s, acc) ==
    IF s = <<>> \/ ~IsDigit(s[1]) THEN acc
    ELSE digits_value(Tail(s), 10 * acc + (s[1] - 48))

RECURSIVE skip_space(_)
skip_space(s) == IF s # <<>> /\ IsSpace(s[1]) THEN skip_space(Tail(s)) ELSE s

\* strtoll(text, NULL, 10): optional white space, optional sign, digits;
\* 0 when no digits follow
strtoll(text) ==
    LET s == skip_space(text)
    IN  IF s # <<>> /\ s[1] = 45 THEN 0 - digits_value(Tail(s), 0)
        ELSE IF s # <<>> /\ s[1] = 43 THEN digits_value(Tail(s), 0)
        ELSE digits_value(s, 0)

IsCont(b) == b >= 128 /\ b <= 191

\* the length of the longest prefix of s made of ASCII bytes
ascii_run(s) ==
    LET high == {i \in DOMAIN s : s[i] >= 128}
    IN  IF high = {} THEN Len(s)
        ELSE (CHOOSE i \in high : \A j \in high : i <= j) - 1

\* the bytes the character at the head of s takes, 0 when it is malformed
utf8_width(s) ==
    IF s[1] < 128 THEN 1
    ELSE IF s[1] >= 194 /\ s[1] <= 223 /\ Len(s) >= 2 /\ IsCont(s[2]) THEN 2
    ELSE IF s[1] >= 224 /\ s[1] <= 239 /\ Len(s) >= 3
            /\ IsCont(s[2]) /\ IsCont(s[3])
            /\ (s[1] = 224 => s[2] >= 160) /\ (s[1] = 237 => s[2] <= 159) THEN 3
    ELSE IF s[1] >= 240 /\ s[1] <= 244 /\ Len(s) >= 4
            /\ IsCont(s[2]) /\ IsCont(s[3]) /\ IsCont(s[4])
            /\ (s[1] = 240 => s[2] >= 144) /\ (s[1] = 244 => s[2] <= 143) THEN 4
    ELSE 0

\* the code point of the n-byte character at the head of s
utf8_code_point(s, n) ==
    IF n = 1 THEN s[1]
    ELSE IF n = 2 THEN (s[1] - 192) * 64 + (s[2] - 128)
    ELSE IF n = 3 THEN (s[1] - 224) * 4096 + (s[2] - 128) * 64 + (s[3] - 128)
    ELSE (s[1] - 240) * 262144 + (s[2] - 128) * 4096
         + (s[3] - 128) * 64 + (s[4] - 128)

\* head, then the decoded rest r (or its failure)
utf8_join(head, r) ==
    IF r.ok THEN [ok |-> TRUE, cp |-> head \o r.cp] ELSE r

RECURSIVE utf8_decode(_)

utf8_char(s, n) ==
    IF n = 0 THEN [ok |-> FALSE, cp |-> <<>>]
    ELSE utf8_join(<<utf8_code_point(s, n)>>, utf8_decode(Drop(s, n)))

\* PyUnicode_Decode(out, out_l, "utf8", "strict"): a run of ASCII bytes
\* decodes to itself; any other character is validated byte by byte
utf8_decode(s) ==
    IF s = <<>> THEN [ok |-> TRUE, cp |-> <<>>]
    ELSE IF ascii_run(s) > 0
    THEN utf8_join(Take(s, ascii_run(s)), utf8_decode(Drop(s, ascii_run(s))))
    ELSE utf8_char(s, utf8_width(s))

\* ---------------------------------------------------- read_row_from_packet
IntTypes == {MYSQL_TYPE_TINY, MYSQL_TYPE_SHORT, MYSQL_TYPE_LONG,
             MYSQL_TYPE_LONGLONG, MYSQL_TYPE_INT24}
StringTypes == {MYSQL_TYPE_VARCHAR, MYSQL_TYPE_VAR_STRING, MYSQL_TYPE_STRING}

\* the str item of a text cell: u is the cell's bytes decoded
text_item(u) ==
    IF u.ok THEN [ok |-> TRUE, item |-> PyStr(u.cp), exc |-> "none"]
    ELSE [ok |-> FALSE, item |-> PyNone, exc |-> "UnicodeDecodeError"]

\* the default processing of one non-NULL cell (no converter installed), for
\* signed integer columns and for string columns
decode_cell(col, out) ==
    CASE col.type_code \in IntTypes /\ BitAnd(col.flags, MYSQL_FLAG_UNSIGNED) = 0 ->
            [ok |-> TRUE, item |-> PyInt(strtoll(out)), exc |-> "none"]
      [] col.type_code \in StringTypes /\ col.encoding = "binary" ->
            [ok |-> TRUE, item |-> PyBytes(out), exc |-> "none"]
      [] col.type_code \in StringTypes /\ col.encoding = "utf8" ->
            text_item(utf8_decode(out))

RECURSIVE read_row_cells(_, _, _, _, _, _)

\* the rest of the column loop's body: d is the processed item of cell i
read_row_item(st, data, i, d, py_result, null_deref_faults) ==
    IF ~d.ok
    THEN [status |-> "error", row |-> <<>>, exc |-> d.exc]
    ELSE read_row_cells(st, data, i + 1, FALSE,
                        Append(py_result, d.item), null_deref_faults)

\* The column loop's body: c is cell i as read_length_coded_string returned
\* it.  out_unset: no cell of this row was non-NULL yet, so the pointer `out`
\* is still NULL when `end = out[out_l]` reads through it; the build either
\* faults there (null_deref_faults) or has dropped the unused load.
read_row_cell(st, c, i, out_unset, py_result, null_deref_faults) ==
    IF c.is_null /\ out_unset /\ null_deref_faults
    THEN [status |-> "crash", row |-> <<>>, exc |-> "none"]
    ELSE IF c.is_null
    THEN read_row_cells(st, c.data, i + 1, out_unset,
                        Append(py_result, PyNone), null_deref_faults)
    ELSE read_row_item(st, c.data, i, decode_cell(st.cols[i], c.out),
                       py_result, null_deref_faults)

\* for (i = 0; i < n_cols; i++)
read_row_cells(st, data, i, out_unset, py_result, null_deref_faults) ==
    IF i > st.n_cols
    THEN [status |-> "ok", row |-> py_result, exc |-> "none"]
    ELSE read_row_cell(st, read_length_coded_string(data), i, out_unset,
                       py_result, null_deref_faults)

\* read_row_from_packet with results_type tuples
read_row_from_packet(st, data, null_deref_faults) ==
    read_row_cells(st, data, 1, TRUE, <<>>, null_deref_faults)

\* ------------------------------------------------------ check_packet_is_eof
is_eof_packet(data) ==
    Len(data) > 0 /\ data[1] = EOF_PACKET_BYTE /\ Len(data) < EOF_PACKET_MAX_LEN

\* The byte at data[i] as the C code reads it: inside the payload its byte;
\* one past the end the bytearray's terminating NUL; beyond that whatever the
\* heap holds (beyond).
mem_byte(data, i, beyond) ==
    IF i <= Len(data) THEN data[i]
    ELSE IF i = Len(data) + 1 THEN 0
    ELSE beyond

eof_has_next(server_status) ==
    BitAnd(server_status, MYSQL_SERVER_MORE_RESULTS_EXISTS)

check_packet_is_eof(data, beyond) ==
    IF ~is_eof_packet(data)
    THEN [is_eof |-> FALSE, warning_count |-> 0, has_next |-> 0]
    ELSE LET server_status == mem_byte(data, 4, beyond) + 256 * mem_byte(data, 5, beyond)
         IN  [is_eof |-> TRUE,
              warning_count |-> mem_byte(data, 2, beyond) + 256 * mem_byte(data, 3, beyond),
              has_next |-> eof_has_next(server_status)]

\* -------------------------------------------------------------- StateObject
NoState == [n_cols |-> 0, cols |-> <<>>, n_rows |-> 0, n_rows_in_batch |-> 0,
            next_seq_id |-> 0, unbuffered |-> FALSE, is_eof |-> FALSE]

\* State_init: fails when the result is unbuffered and no longer active, and
\* when the connection, its socket or its byte source is None (the attribute
\* lookups on None fail); otherwise builds the state from the result's
\* metadata and the connection's _next_seq_id.
State_init_ok(r, c) ==
    /\ ~(r.options_unbuffered /\ ~r.unbuffered_active)
    /\ r.connection = "conn"
    /\ c._sock # "None"
    /\ c._rfile # "None"

State_init(r, c) ==
    [n_cols |-> Len(r.fields), cols |-> r.fields, n_rows |-> 0,
     n_rows_in_batch |-> 0, next_seq_id |-> c._next_seq_id,
     unbuffered |-> r.options_unbuffered, is_eof |-> FALSE]

\* State_reset_batch, the counters: n_rows_in_batch <- 0 (n_rows is kept)
State_reset_batch_all(st) == [st EXCEPT !.n_rows_in_batch = 0, !.n_rows = 0]

State_reset_batch(st) == [st EXCEPT !.n_rows_in_batch = 0]

\* ------------------------------------------------------ read_rowdata_packet
\* while (row_idx < requested_n_rows), with size 0 standing for UINTMAX_MAX
more_rows_unbounded(row_idx, size) == TRUE

more_rows(row_idx, size) == size = 0 \/ row_idx < size

\* n_rows++; n_rows_in_batch++ for a payload that is not the EOF packet
count_row(st) == [st EXCEPT !.n_rows = @ + 1, !.n_rows_in_batch = @ + 1]

\* what the EOF packet writes on the result
eof_on_result(r, e) ==
    [r EXCEPT !.warning_count = e.warning_count, !.has_next = e.has_next,
              !.connection = "None", !.unbuffered_active = FALSE]

\* PyList_Append(py_state->py_rows, py_row)
append_row_front(rows, py_row) == <<py_row>> \o rows

append_row(rows, py_row) == Append(rows, py_row)

RECURSIVE row_loop(_, _, _, _, _, _, _)

\* the end of a round: st2 is the state with the row counted, d the row as
\* read_row_from_packet returned it
row_loop_row(st2, w, d, rows, row_idx, size, null_deref_faults, beyond) ==
    IF d.status = "crash"
    THEN [end |-> "crash", st |-> st2, w |-> w, rows |-> rows, row_idx |-> row_idx]
    ELSE IF d.status = "error"
    THEN [end |-> "error", st |-> st2,
          w |-> [w EXCEPT !.exc = d.exc,
                          !.log = Append(@, Ev("raise", d.exc, 0, 0))],
          rows |-> rows, row_idx |-> row_idx]
    ELSE row_loop(st2, [w EXCEPT !.log = Append(@, Ev("row", "", row_idx, 0))],
                  append_row(rows, d.row), row_idx + 1, size,
                  null_deref_faults, beyond)

\* the middle of a round: p is the payload read, e what check_packet_is_eof
\* made of it
row_loop_payload(p, e, rows, row_idx, size, null_deref_faults, beyond) ==
    IF e.is_eof
    THEN [end |-> "eof", st |-> [p.st EXCEPT !.is_eof = TRUE],
          w |-> [p.w EXCEPT !.res = eof_on_result(@, e),
                            !.log = Append(@, Ev("eof", "", Len(p.buff), 0))],
          rows |-> rows, row_idx |-> row_idx]
    ELSE row_loop_row(count_row(p.st), p.w,
                      read_row_from_packet(count_row(p.st), p.buff, null_deref_faults),
                      rows, row_idx, size, null_deref_faults, beyond)

\* the start of a round: p is what read_packet returned
row_loop_packet(p, rows, row_idx, size, null_deref_faults, beyond) ==
    IF ~p.ok
    THEN [end |-> "error", st |-> p.st, w |-> p.w, rows |-> rows,
          row_idx |-> row_idx]
    ELSE row_loop_payload(p, check_packet_is_eof(p.buff, beyond), rows, row_idx,
                          size, null_deref_faults, beyond)

\* while (row_idx < requested_n_rows)
row_loop(st, w, rows, row_idx, size, null_deref_faults, beyond) ==
    IF ~more_rows(row_idx, size)
    THEN [end |-> "done", st |-> st, w |-> w, rows |-> rows, row_idx |-> row_idx]
    ELSE row_loop_packet(read_packet(st, w), rows, row_idx, size,
                         null_deref_faults, beyond)

\* if (py_state->is_eof) goto exit
already_eof_ignored(st) == FALSE

already_eof(st) == st.is_eof

\* whether the exit block removes result._state
discards_state(st, row_idx) ==
    IF st.unbuffered THEN st.is_eof /\ row_idx = 0 ELSE st.is_eof

\* The exit block: write next_seq_id back, choose the return value, set
\* rows / affected_rows, drop the state, and settle the exception.
\* l is the loop's result (or the state as found when is_eof was already set).
exit_block(l, size) ==
    LET st == l.st
        c1 == [l.w.conn EXCEPT !._next_seq_id = st.next_seq_id]
        unb_last == st.unbuffered /\ st.is_eof /\ l.row_idx = 0
        index_error == st.unbuffered /\ ~unb_last /\ size = 1 /\ l.rows = <<>>
        py_out == IF unb_last THEN "None"
                  ELSE IF st.unbuffered /\ size = 1
                       THEN (IF index_error THEN "NULL" ELSE "row")
                       ELSE "rows"
        r1 == IF unb_last
              THEN [l.w.res EXCEPT !.rows = "None", !.affected_rows = st.n_rows]
              ELSE IF st.unbuffered THEN l.w.res
              ELSE [l.w.res EXCEPT !.affected_rows = st.n_rows]
        r2 == IF discards_state(st, l.row_idx)
              THEN [r1 EXCEPT !.has_state = FALSE] ELSE r1
        failed == l.end = "error"
    IN  [rfile |-> l.w.rfile, conn |-> c1, res |-> r2,
         state |-> IF r2.has_state THEN st ELSE NoState,
         py_rows |-> l.rows,
         ret |-> IF index_error \/ failed THEN "NULL" ELSE py_out,
         exc |-> IF index_error THEN "IndexError"
                 ELSE IF failed THEN l.w.exc ELSE "none",
         row_idx |-> l.row_idx, end |-> l.end,
         log |-> l.w.log, framed |-> l.w.framed]

\* the call as it stands before anything is read
entry(r) ==
    [rfile |-> rfile, conn |-> conn, res |-> r, exc |-> "none",
     log |-> <<>>, framed |-> <<>>]

\* a call that returns before the exit block, leaving everything as it was
early_return(ret, exc, end) ==
    [rfile |-> rfile, conn |-> conn, res |-> res, state |-> state,
     py_rows |-> py_rows, ret |-> ret, exc |-> exc,
     row_idx |-> 0, end |-> end, log |-> <<>>, framed |-> <<>>]

\* the loop, unless is_eof is already set on the state; st0 is the state
\* after creation or batch reset, w1 and rows0 the result and list with it
batch(st0, w1, rows0, size, null_deref_faults, beyond) ==
    IF already_eof(st0)
    THEN [end |-> "was_eof", st |-> st0, w |-> w1, rows |-> rows0, row_idx |-> 0]
    ELSE row_loop(st0, w1, rows0, 0, size, null_deref_faults, beyond)

\* how the call ends: l is the loop's result; a fault ends the process, any
\* other end goes through the exit block
finish(l, size) ==
    IF l.end = "crash"
    THEN [rfile |-> l.w.rfile, conn |-> l.w.conn, res |-> l.w.res,
          state |-> l.st, py_rows |-> l.rows, ret |-> "crash",
          exc |-> "none", row_idx |-> l.row_idx, end |-> "crash",
          log |-> l.w.log, framed |-> l.w.framed]
    ELSE exit_block(l, size)

\* The whole call read_rowdata_packet(result, unbuffered, size).
Outcome(py_unbuffered, size, null_deref_faults, beyond) ==
    IF py_unbuffered /\ ~res.unbuffered_active
    THEN early_return("None", "none", "inactive")
    ELSE IF ~res.has_state /\ ~State_init_ok(res, conn)
    THEN early_return("NULL", "SystemError", "no_state")
    ELSE IF ~res.has_state
    THEN finish(batch(State_init(res, conn),
                      entry([res EXCEPT !.has_state = TRUE, !.rows = "list"]),
                      <<>>, size, null_deref_faults, beyond),
                size)
    ELSE IF size > 0
    THEN finish(batch(State_reset_batch(state),
                      entry([res EXCEPT !.rows = "list"]),
                      <<>>, size, null_deref_faults, beyond),
                size)
    ELSE finish(batch(state, entry(res), py_rows, size, null_deref_faults, beyond),
                size)

\* ------------------------------------------------------------- the server
\* Row payloads for the columns (BIGINT, VARCHAR utf8): ("1","a"); a NULL
\* first cell (NULL,"a"); a second cell that is not UTF-8 ("1", 0xFF); and a
\* 9-byte payload starting 0xFE (an 8-byte length prefix giving 0).
RowA == <<1, 49, 1, 97>>
RowNull == <<251, 1, 97>>
RowBadText == <<1, 49, 1, 255>>
RowFE == <<254, 0, 0, 0, 0, 0, 0, 0, 0>>
RowPayloads == {RowA, RowNull, RowBadText, RowFE}

\* a row ("1", 253 times "a") whose payload of 258 bytes needs the second
\* byte of the packet header's length and a two-byte length prefix
LongText == [i \in 1..253 |-> 97]
RowLong == <<1, 49, 252, 253, 0>> \o LongText

\* EOF payloads: warning_count 1 with SERVER_MORE_RESULTS_EXISTS set;
\* warning_count 0 with only AUTOCOMMIT set; a bare 0xFE.
\* ErrPayload is an error packet (0xFF, errno 1064).
EofMore == <<254, 1, 0, 10, 0>>
EofLast == <<254, 0, 0, 2, 0>>
EofBare == <<254>>
ErrPayload == <<255, 40, 4>>
EndPayloads == {EofMore, EofLast, EofBare, ErrPayload}

SeqsOfLen(S, n) == UNION {[1..k -> S] : k \in 0..n}

\* rows; rows then an end packet; rows, an end packet and one more row
WirePayloads ==
    SeqsOfLen(RowPayloads, MaxPackets)
    \cup {r \o <<t>> : r \in SeqsOfLen(RowPayloads, MaxPackets - 1), t \in EndPayloads}
    \cup {r \o <<t, RowA>> : r \in SeqsOfLen(RowPayloads, MaxPackets - 2),
                              t \in EndPayloads}

\* the long row and one more packet
LongStreams == {<<RowLong, t>> : t \in RowPayloads \cup EndPayloads}

\* what can be wrong with the end of the stream: nothing; the last byte is
\* missing (the server hung up); the last packet carries sequence number 0;
\* the last packet's sequence number is one too high
Tails == {"ok", "cut", "seq_zero", "seq_skip"}

StartSeqs == {254}

Fields == << [type_code |-> MYSQL_TYPE_LONGLONG, flags |-> 0, encoding |-> "utf8"],
             [type_code |-> MYSQL_TYPE_VAR_STRING, flags |-> 0, encoding |-> "utf8"] >>

\* the sequence number the server puts on packet i
WireSeq(s0, n, tail, i) ==
    IF i = n /\ tail = "seq_zero" THEN 0
    ELSE IF i = n /\ tail = "seq_skip" THEN (s0 + i) % 256
    ELSE (s0 + i - 1) % 256

\* one physical packet on the wire: 3-byte length, sequence number, payload
Encode(payload, seq) ==
    << Len(payload) % 256, (Len(payload) \div 256) % 256,
       Len(payload) \div 65536, seq >> \o payload

RECURSIVE EncodeAll(_, _, _, _)
EncodeAll(payloads, s0, tail, i) ==
    IF i > Len(payloads) THEN <<>>
    ELSE Encode(payloads[i], WireSeq(s0, Len(payloads), tail, i))
         \o EncodeAll(payloads, s0, tail, i + 1)

Stream(payloads, s0, tail) ==
    LET b == EncodeAll(payloads, s0, tail, 1)
    IN  IF tail = "cut" /\ b # <<>> THEN SubSeq(b, 1, Len(b) - 1) ELSE b

\* bytes the heap may hold beyond a payload's terminating NUL
BeyondBytes == {0, 8, 255}

\* size arguments: 0 (no limit), 1 (fetchone) and 2 (fetchmany)
Sizes == {0, 1, 2}

Range(f) == {f[i] : i \in DOMAIN f}

\* The builds and heaps a run can meet.  Only a stream with a row whose first
\* cell is NULL reaches the read through the NULL pointer, and only one with
\* a bare 0xFE payload reads beyond the payload's terminator.
Builds(payloads) ==
    [null_deref_faults : IF RowNull \in Range(payloads) THEN BOOLEAN ELSE {FALSE},
     beyond : IF EofBare \in Range(payloads) THEN BeyondBytes ELSE {0}]

\* no function is taken on its own
NoUnit == [op |-> "none"]

\* ---------------------------------------------------------- specification
\* the result and the connection as the query left them, with the server's
\* packets waiting on the byte source
InitWith(payloads) ==
    \E s0 \in StartSeqs, tail \in Tails, unbuffered \in BOOLEAN :
        /\ build \in Builds(payloads)
        /\ wire = [payloads |-> payloads, s0 |-> s0, tail |-> tail]
        /\ rfile = Stream(payloads, s0, tail)
        /\ conn = [_sock |-> "sock", _rfile |-> "rfile", sock_closed |-> FALSE,
                   _next_seq_id |-> s0, _result |-> "res"]
        /\ res = [has_state |-> FALSE, rows |-> "None", affected_rows |-> NoneInt,
                  warning_count |-> 0, has_next |-> NoneInt, connection |-> "conn",
                  unbuffered_active |-> unbuffered, options_unbuffered |-> unbuffered,
                  fields |-> Fields]
        /\ state = NoState
        /\ py_rows = <<>>
        /\ call = [n |-> 0, py_unbuffered |-> FALSE, size |-> 0, ret |-> "init",
                   exc |-> "none", row_idx |-> 0, end |-> "init", log |-> <<>>,
                   framed |-> <<>>, had_state |-> FALSE, n_rows_before |-> 0,
                   active_before |-> unbuffered,
                   was_eof |-> FALSE, rows_before |-> <<>>]
        /\ hist = [calls |-> 0, framed |-> <<>>, eof_set |-> FALSE,
                   crashed |-> FALSE]
        /\ unit = NoUnit

Init ==
    \/ \E payloads \in WirePayloads : InitWith(payloads)
    \/ \E payloads \in LongStreams : InitWith(payloads)

\* the call's effects on the program, and what the properties remember of it
Commit(f, py_unbuffered, size) ==
    /\ rfile' = f.rfile
    /\ conn' = f.conn
    /\ res' = f.res
    /\ state' = f.state
    /\ py_rows' = f.py_rows
    /\ call' = [n |-> hist.calls + 1, py_unbuffered |-> py_unbuffered,
                size |-> size, ret |-> f.ret, exc |-> f.exc,
                row_idx |-> f.row_idx, end |-> f.end, log |-> f.log,
                framed |-> f.framed, had_state |-> res.has_state,
                n_rows_before |-> state.n_rows,
                active_before |-> res.unbuffered_active,
                was_eof |-> hist.eof_set, rows_before |-> py_rows]
    /\ hist' = [calls |-> hist.calls + 1,
                framed |-> hist.framed \o f.framed,
                eof_set |-> hist.eof_set \/ f.end = "eof",
                crashed |-> f.end = "crash"]

ReadRowdataPacket(py_unbuffered, size) ==
    /\ ~hist.crashed
    /\ hist.calls < MaxCalls
    /\ Commit(Outcome(py_unbuffered, size, build.null_deref_faults, build.beyond),
              py_unbuffered, size)
    /\ UNCHANGED <<wire, build, unit>>

Next ==
    \E py_unbuffered \in BOOLEAN, size \in Sizes :
        ReadRowdataPacket(py_unbuffered, size)

Spec == Init /\ [][Next]_vars

\* ------------------------------------------------------------- properties
\* the bytes of the server's stream that follow its first k packets
RECURSIVE EncodedLen(_, _)
EncodedLen(payloads, k) ==
    IF k = 0 THEN 0 ELSE 4 + Len(payloads[k]) + EncodedLen(payloads, k - 1)

RestOfStream(k) ==
    Drop(Stream(wire.payloads, wire.s0, wire.tail), EncodedLen(wire.payloads, k))

\* the payloads framed so far are the server's first packets, in order
FramedIsPrefix ==
    /\ Len(hist.framed) <= Len(wire.payloads)
    /\ hist.framed = SubSeq(wire.payloads, 1, Len(hist.framed))

Called == call.n > 0

\* the call ran to its exit block without an error
Succeeded == call.end \in {"done", "eof", "was_eof"} /\ call.ret # "NULL"

\* C1: read_packet accepts a physical packet only when its sequence byte
\* equals next_seq_id, and each accepted packet sets next_seq_id to
\* (seq + 1) mod 256; next_seq_id therefore stays within 0..255 and wraps
\* from 255 to 0.
C1_SequenceDiscipline ==
    /\ \A i \in DOMAIN call.log :
          (call.log[i].ev = "hdr" /\ call.log[i].x = "accepted") =>
              /\ call.log[i].a = call.log[i].b
              /\ i < Len(call.log)
              /\ call.log[i + 1].ev = "seq"
              /\ call.log[i + 1].b = (call.log[i].a + 1) % 256
    /\ \A i \in DOMAIN call.log :
          call.log[i].ev = "seq" =>
              /\ i > 1
              /\ call.log[i - 1].ev = "hdr" /\ call.log[i - 1].x = "accepted"
              /\ call.log[i].b \in 0..255
    /\ state.next_seq_id \in 0..255
    /\ conn._next_seq_id \in 0..255

\* a packet with sequence byte 255 was accepted and next_seq_id wrapped to 0
C1_Witness ==
    \E i \in DOMAIN call.log :
        /\ call.log[i].ev = "hdr" /\ call.log[i].x = "accepted"
        /\ call.log[i].a = 255
        /\ call.log[i + 1].ev = "seq" /\ call.log[i + 1].b = 0
        /\ conn._next_seq_id = 0

C3_NoReadAfterEof ==
    [][hist.eof_set =>
          /\ rfile' = rfile
          /\ \A i \in DOMAIN call'.log : call'.log[i].ev # "read"]_vars

\* a call found is_eof set on the kept state while bytes were still unread
C3_Witness ==
    /\ call.was_eof
    /\ call.end = "was_eof"
    /\ rfile # <<>>

\* the call began a new batch list: it created the state, or it was given
\* size > 0 and so reset the batch of the state it found
Reset == ~call.had_state \/ call.size > 0

\* C4 as stated: after every successful call the length of state.rows is
\* n_rows and the rows the call appended number n_rows_in_batch.
C4_AsStated ==
    (Succeeded /\ res.has_state) =>
        /\ Len(py_rows) = state.n_rows
        /\ call.row_idx = state.n_rows_in_batch

\* C4 amended: after a successful call that created the state or was given
\* size > 0 (and so started a new batch list), the length of state.rows and
\* the number of rows the call appended both equal n_rows_in_batch; n_rows is
\* the running total, grown by the call by exactly the rows it appended, and
\* equals the length of state.rows only for the call that created the state.
C4_BatchCounters ==
    /\ (Succeeded /\ res.has_state /\ Reset) =>
            /\ Len(py_rows) = state.n_rows_in_batch
            /\ call.row_idx = state.n_rows_in_batch
            /\ state.n_rows =
                   (IF call.had_state THEN call.n_rows_before ELSE 0) + call.row_idx
            /\ (~call.had_state => Len(py_rows) = state.n_rows)
    /\ res.has_state =>
            /\ Len(py_rows) <= state.n_rows_in_batch
            /\ state.n_rows_in_batch <= state.n_rows

\* a second batch of one row, after a first batch of one row, on a stream
\* without faults
C4_Witness ==
    /\ Succeeded /\ res.has_state
    /\ wire.tail = "ok"
    /\ hist.framed = <<RowA, RowA>>
    /\ Len(call.rows_before) = 1 /\ call.n_rows_before = 1
    /\ call.had_state /\ call.size > 0
    /\ call.row_idx = 1
    /\ Len(py_rows) = 1
    /\ state.n_rows_in_batch = 1
    /\ state.n_rows = 2

\* the rows the row payloads decode to, worked out by hand
ExpectedRow(payload) ==
    CASE payload = RowA -> << PyInt(1), PyStr(<<97>>) >>
      [] payload = RowNull -> << PyNone, PyStr(<<97>>) >>
      [] payload = RowFE -> << PyInt(0), PyNone >>
      [] payload = RowLong -> << PyInt(1), PyStr(LongText) >>
      [] OTHER -> << >>

\* the index in the server's stream of the first packet this call framed
FirstFramed == Len(hist.framed) - Len(call.framed) + 1

\* C5: after a call that returns m rows, the last m entries of state.rows
\* are the decoded rows of the m row packets that call read, in arrival
\* order, and n_rows has grown by exactly m.
C5_RowsInOrder ==
    (Succeeded /\ call.end # "was_eof") =>
        LET m == call.row_idx
            base == Len(py_rows) - m
        IN  /\ FramedIsPrefix
            /\ base >= 0
            /\ base = (IF Reset THEN 0 ELSE Len(call.rows_before))
            /\ ~Reset => SubSeq(py_rows, 1, base) = call.rows_before
            /\ Len(call.framed) = m + (IF call.end = "eof" THEN 1 ELSE 0)
            /\ \A i \in 1..m :
                   py_rows[base + i] = ExpectedRow(wire.payloads[FirstFramed + i - 1])
            /\ res.has_state =>
                   state.n_rows =
                       (IF call.had_state THEN call.n_rows_before ELSE 0) + m
            /\ (~res.has_state /\ ~res.options_unbuffered) =>
                   res.affected_rows =
                       (IF call.had_state THEN call.n_rows_before ELSE 0) + m

\* a call returned two different rows, in the order the server sent them
C5_Witness ==
    /\ Succeeded
    /\ call.ret = "rows"
    /\ call.row_idx = 2
    /\ py_rows = << ExpectedRow(RowFE), ExpectedRow(RowA) >>
    /\ wire.payloads[1] = RowFE /\ wire.payloads[2] = RowA

\* ---- C6
\* a call made in unbuffered mode that got past the unbuffered_active test
UnbufferedCall ==
    /\ Called
    /\ res.options_unbuffered
    /\ call.py_unbuffered
    /\ call.end \notin {"inactive", "no_state"}

\* C6: in unbuffered mode a call with size = n > 0 reads at most n packets
\* and returns at most n rows; when it returns without having read the EOF
\* packet, is_eof is still false, the connection is still attached to the
\* result, unbuffered_active is still true, and the byte source and
\* next_seq_id stand at the next unread packet.
C6_UnbufferedBatch ==
    (UnbufferedCall /\ call.size > 0) =>
        /\ Len(call.framed) <= call.size
        /\ call.row_idx <= call.size
        /\ (call.ret = "rows" => Len(py_rows) <= call.size)
        /\ (call.ret = "row" => call.size = 1 /\ Len(py_rows) = 1)
        /\ (call.end = "done" =>
               /\ call.ret \in {"row", "rows"}
               /\ res.has_state /\ ~state.is_eof
               /\ ~hist.eof_set
               /\ res.connection = "conn"
               /\ res.unbuffered_active
               /\ FramedIsPrefix
               /\ rfile = RestOfStream(Len(hist.framed))
               /\ state.next_seq_id = (wire.s0 + Len(hist.framed)) % 256
               /\ conn._next_seq_id = state.next_seq_id)

\* the second fetch of one row of an unbuffered result: it took the server's
\* second packet and left the third unread
C6_Witness ==
    /\ UnbufferedCall /\ call.size = 1
    /\ call.n = 2 /\ call.had_state
    /\ call.end = "done" /\ call.ret = "row"
    /\ FirstFramed = 2 /\ Len(call.framed) = 1
    /\ py_rows = << ExpectedRow(wire.payloads[2]) >>
    /\ rfile # <<>>
    /\ res.unbuffered_active /\ res.connection = "conn"

\* ---- C7
\* first byte 0xFE and fewer than 9 bytes
EofShaped(payload) ==
    Len(payload) > 0 /\ payload[1] = 254 /\ Len(payload) < 9

\* the 16-bit little-endian field at bytes i, i+1 of a payload (counted from
\* 1), and 0 when the payload is too short to carry the field
EofField(payload, i) ==
    IF Len(payload) >= i + 1 THEN payload[i] + 256 * payload[i + 1] ELSE 0

\* the last payload the call framed
LastFramed == call.framed[Len(call.framed)]

\* the rows on the list when the call entered its loop
RowsAtEntry == IF Reset THEN 0 ELSE Len(call.rows_before)

\* C7: a payload is treated as end-of-result iff its first byte is 0xFE and
\* it is shorter than 9 bytes; on such a payload the call records the
\* payload's warning_count and has_next (set iff bit 0x08 of its server_status
\* is set) on the result, sets is_eof, detaches the connection, sets
\* unbuffered_active to false, and appends no row.
C7_AsStated ==
    Called =>
        /\ \A i \in DOMAIN call.framed :
               EofShaped(call.framed[i]) <=>
                   (call.end = "eof" /\ i = Len(call.framed))
        /\ (call.end = "eof" =>
               /\ res.warning_count = EofField(LastFramed, 2)
               /\ (res.has_next # 0) <=>
                      (BitAnd(EofField(LastFramed, 4), 8) # 0)
               /\ hist.eof_set
               /\ (res.has_state => state.is_eof)
               /\ res.connection = "None"
               /\ ~res.unbuffered_active
               /\ call.row_idx = Len(call.framed) - 1
               /\ Len(py_rows) = RowsAtEntry + call.row_idx)

\* a one-byte 0xFE payload ended the result, and has_next or warning_count
\* was recorded from bytes that are not part of the payload
C7_Witness ==
    /\ call.end = "eof"
    /\ LastFramed = EofBare
    /\ res.connection = "None" /\ ~res.unbuffered_active
    /\ (res.has_next # 0 \/ res.warning_count # 0)

\* ---- C8
\* C8: whenever a call observes the EOF packet or fails with an error, the
\* result no longer holds the decoder state when the call returns.
C8_AsStated ==
    (Called /\ call.end \in {"eof", "error"}) => ~res.has_state

\* a call on a buffered result failed on a sequence mismatch and the state
\* is still attached to the result
C8_Witness ==
    /\ ~res.options_unbuffered
    /\ call.end = "error" /\ call.exc = "InternalError"
    /\ conn.sock_closed
    /\ res.has_state

\* ---- C9
\* the result's cumulative row count when the call returned
CumulativeRows == call.n_rows_before + call.row_idx

\* C9: in unbuffered mode, whenever a call ends with is_eof set and no row
\* read during the call (the EOF packet was the call's first packet, or an
\* earlier call that returned rows had already seen it), the call sets
\* result.rows to None and result.affected_rows to the cumulative n_rows,
\* discards the state and returns None.
C9_AsStated ==
    (/\ Called
     /\ res.options_unbuffered
     /\ call.row_idx = 0
     /\ call.exc = "none"
     /\ (call.end = "eof" \/ (call.had_state /\ call.was_eof))) =>
        /\ res.rows = "None"
        /\ res.affected_rows = CumulativeRows
        /\ ~res.has_state
        /\ call.ret = "None"

\* an unbuffered call made after an earlier call had returned rows and seen
\* the EOF packet returned None and left rows, affected_rows and the state
\* as they were
C9_Witness ==
    /\ res.options_unbuffered /\ call.py_unbuffered
    /\ call.n = 2 /\ call.had_state /\ call.was_eof
    /\ call.end = "inactive" /\ call.ret = "None"
    /\ res.has_state /\ state.is_eof
    /\ res.rows = "list"
    /\ res.affected_rows = NoneInt

\* ---- C10
\* the socket is closed and the connection's _sock and _rfile are cleared
ForceClosed ==
    conn.sock_closed /\ conn._sock = "None" /\ conn._rfile = "None"

\* log entry i is immediately followed by force_close and then by the
\* raising of err_type, which ends the call's reading
ClosedThenRaised(i, err_type) ==
    /\ Len(call.log) = i + 2
    /\ call.log[i + 1].ev = "force_close"
    /\ call.log[i + 2].ev = "raise" /\ call.log[i + 2].x = err_type
    /\ call.end = "error"
    /\ ForceClosed

\* C10: every transport failure inside read_packet (a read that delivers
\* fewer bytes than requested, or a physical packet whose sequence byte
\* differs from next_seq_id) force-closes the connection before the error
\* is raised; the error is OperationalError for a short read or a received
\* sequence byte of 0, and InternalError for any other mismatch.
C10_TransportFailure ==
    \A i \in DOMAIN call.log :
        /\ (call.log[i].ev = "read" /\ call.log[i].b < call.log[i].a) =>
               ClosedThenRaised(i, "OperationalError")
        /\ (call.log[i].ev = "hdr" /\ call.log[i].a # call.log[i].b) =>
               /\ call.log[i].x = "rejected"
               /\ ClosedThenRaised(i, IF call.log[i].a = 0
                                      THEN "OperationalError"
                                      ELSE "InternalError")

\* the transport failures, each met by the first call on the result
C10_WitnessShortRead ==
    \E i \in DOMAIN call.log :
        /\ call.log[i].ev = "read" /\ call.log[i].b < call.log[i].a
        /\ call.log[i].b > 0
        /\ call.n = 1 /\ ForceClosed

C10_WitnessSeqZero ==
    \E i \in DOMAIN call.log :
        /\ call.log[i].ev = "hdr" /\ call.log[i].x = "rejected"
        /\ call.log[i].a = 0
        /\ call.n = 1 /\ ForceClosed /\ call.exc = "OperationalError"

C10_WitnessSeqSkip ==
    \E i \in DOMAIN call.log :
        /\ call.log[i].ev = "hdr" /\ call.log[i].x = "rejected"
        /\ call.log[i].a # 0
        /\ call.n = 1 /\ ForceClosed /\ call.exc = "InternalError"

C10_Witness ==
    /\ call.n = 1
    /\ call.end = "error"
    /\ ForceClosed
    /\ \E i \in DOMAIN call.log :
          /\ call.log[i].ev = "hdr" /\ call.log[i].x = "rejected"
          /\ call.log[i].a # 0
          /\ call.log[i + 2].x = "InternalError"
    /\ \E j \in DOMAIN call.log : call.log[j].ev = "row"

\* ---- C11
\* the payload is a MySQL error packet
ErrorShaped(payload) == Len(payload) > 0 /\ payload[1] = 255

\* log entry i is the last one and asks the connection to raise the typed
\* exception from a payload of n bytes
RaisedFromPayload(i, n) ==
    /\ i = Len(call.log)
    /\ call.log[i].ev = "raise_mysql_exception"
    /\ call.log[i].a = n

\* C11: when an assembled payload begins with 0xFF, read_packet sets
\* unbuffered_active to false on the connection's result, asks the connection
\* to raise the typed exception from the raw payload, and fails; the payload
\* is decoded neither as a row nor as EOF, no row is appended and n_rows is
\* unchanged.
C11_ErrorPacket ==
    (Called /\ ~hist.crashed) =>
        /\ \A i \in DOMAIN call.framed :
               ErrorShaped(call.framed[i]) =>
                   /\ i = Len(call.framed)
                   /\ RaisedFromPayload(Len(call.log), Len(call.framed[i]))
                   /\ call.end = "error"
                   /\ call.ret = "NULL"
                   /\ call.exc \in {"MySQLError", "IndexError"}
                   /\ ~res.unbuffered_active
                   /\ ~hist.eof_set
                   /\ call.row_idx = Len(call.framed) - 1
                   /\ Len(py_rows) = RowsAtEntry + call.row_idx
                   /\ res.has_state
                   /\ state.n_rows =
                          (IF call.had_state THEN call.n_rows_before ELSE 0)
                              + call.row_idx
                   /\ ~state.is_eof
        /\ \A i \in DOMAIN call.log :
               call.log[i].ev = "raise_mysql_exception" =>
                   ErrorShaped(LastFramed)

\* an active unbuffered result met the error packet after one row: the row
\* stays the only one and unbuffered_active went from true to false
C11_Witness ==
    /\ res.options_unbuffered /\ call.active_before
    /\ ~res.unbuffered_active
    /\ call.framed = <<RowA, ErrPayload>>
    /\ call.exc = "MySQLError"
    /\ call.ret = "NULL"
    /\ call.row_idx = 1 /\ Len(py_rows) = 1
    /\ state.n_rows = 1

\* ------------------------------------------- read_packet on large packets
\* A byte string in run form: a sequence of runs [b |-> byte, n |-> count],
\* n > 0, standing for n bytes b.  A physical packet of 0xFFFFFF bytes is one
\* header of four runs of one byte and one run of 0xFFFFFF bytes.
MaxPhysical == 3     \* physical packets the server sends

RECURSIVE RunLen(_)
RunLen(s) == IF s = <<>> THEN 0 ELSE s[1].n + RunLen(Tail(s))

RECURSIVE RunTake(_, _)
\* the first n bytes of s (all of s when it is shorter)
RunTake(s, n) ==
    IF n = 0 \/ s = <<>> THEN <<>>
    ELSE IF s[1].n <= n THEN <<s[1]>> \o RunTake(Tail(s), n - s[1].n)
    ELSE << [b |-> s[1].b, n |-> n] >>

RECURSIVE RunDrop(_, _)
RunDrop(s, n) ==
    IF n = 0 \/ s = <<>> THEN s
    ELSE IF s[1].n <= n THEN RunDrop(Tail(s), n - s[1].n)
    ELSE << [b |-> s[1].b, n |-> s[1].n - n] >> \o Tail(s)

\* the bytes of a string made of runs of one byte each
RunBytes(s) == [i \in DOMAIN s |-> s[i].b]

\* read_packet's failure: the exception, with the connection force-closed for
\* a transport failure
run_failure(exc, q, s, phys) ==
    [ok |-> FALSE, exc |-> exc, next_seq_id |-> q, rest |-> s, buff |-> <<>>,
     phys |-> phys, closed |-> exc # "MySQLError"]

RECURSIVE read_packet_runs(_, _, _, _)

\* one round of the loop after its header hdr (4 bytes, n the body's length)
\* was read from s; phys counts the physical packets taken so far
read_packet_round(q, s, py_buff, phys, hdr, n) ==
    IF ~seq_accepted(hdr[4], q)
    THEN run_failure(seq_error_type(hdr[4]), q, RunDrop(s, 4), phys)
    ELSE IF RunLen(s) < 4 + n
    THEN run_failure("OperationalError", next_seq(q), <<>>, phys)
    ELSE IF ends_payload(n)
    THEN [ok |-> TRUE, exc |-> "none", next_seq_id |-> next_seq(q),
          rest |-> RunDrop(s, 4 + n),
          buff |-> py_buff \o RunTake(RunDrop(s, 4), n),
          phys |-> phys + 1, closed |-> FALSE]
    ELSE read_packet_runs(next_seq(q), RunDrop(s, 4 + n),
                          py_buff \o RunTake(RunDrop(s, 4), n), phys + 1)

\* the loop of read_packet on a byte source in run form
read_packet_runs(q, s, py_buff, phys) ==
    IF RunLen(s) < 4
    THEN run_failure("OperationalError", q, <<>>, phys)
    ELSE read_packet_round(q, s, py_buff, phys, RunBytes(RunTake(s, 4)),
                           bytes_to_read(RunBytes(RunTake(s, 4))))

\* read_packet: the loop, then the test for an error packet
read_packet_large(q, s) ==
    IF read_packet_runs(q, s, <<>>, 0).ok
       /\ read_packet_runs(q, s, <<>>, 0).buff # <<>>
       /\ read_packet_runs(q, s, <<>>, 0).buff[1].b = ERROR_PACKET_BYTE
    THEN run_failure("MySQLError", read_packet_runs(q, s, <<>>, 0).next_seq_id,
                     read_packet_runs(q, s, <<>>, 0).rest,
                     read_packet_runs(q, s, <<>>, 0).phys)
    ELSE read_packet_runs(q, s, <<>>, 0)

\* lengths of the physical packets the server sends: empty, one byte, one
\* less than the maximum, and the maximum
PhysicalLens == {0, 1, MYSQL_MAX_PACKET_LEN - 1, MYSQL_MAX_PACKET_LEN}

\* the body of the server's i-th physical packet, n bytes of the letter i
PhysicalBody(i, n) == IF n = 0 THEN <<>> ELSE << [b |-> 96 + i, n |-> n] >>

\* the header of a physical packet of n bytes with sequence number seq
PhysicalHeader(n, seq) ==
    << [b |-> n % 256, n |-> 1], [b |-> (n \div 256) % 256, n |-> 1],
       [b |-> n \div 65536, n |-> 1], [b |-> seq, n |-> 1] >>

RECURSIVE PhysicalStream(_, _, _)
PhysicalStream(lens, s0, i) ==
    IF i > Len(lens) THEN <<>>
    ELSE PhysicalHeader(lens[i], (s0 + i - 1) % 256) \o PhysicalBody(i, lens[i])
         \o PhysicalStream(lens, s0, i + 1)

\* the variables of the result-set reader, at rest while a function is taken
\* on its own
AtRest ==
    /\ rfile = <<>>
    /\ conn = [_sock |-> "None", _rfile |-> "None", sock_closed |-> TRUE,
               _next_seq_id |-> 0, _result |-> "None"]
    /\ res = [has_state |-> FALSE]
    /\ state = NoState
    /\ py_rows = <<>>
    /\ call = [n |-> 0]
    /\ hist = [calls |-> 0]
    /\ build = [beyond |-> 0]
    /\ wire = [payloads |-> <<>>]

Resting == UNCHANGED <<rfile, conn, res, state, py_rows, call, hist, build, wire>>

InitFraming ==
    /\ AtRest
    /\ \E k \in 1..MaxPhysical : \E lens \in [1..k -> PhysicalLens] :
          \E s0 \in StartSeqs :
            unit = [op |-> "read_packet", lens |-> lens, s0 |-> s0,
                    next_seq_id |-> s0, rest |-> PhysicalStream(lens, s0, 1),
                    packets |-> <<>>, failed |-> FALSE]

\* one call of read_packet on what is left of the stream
ReadPacketLarge ==
    /\ unit.op = "read_packet"
    /\ ~unit.failed
    /\ unit.rest # <<>>
    /\ unit' = [unit EXCEPT
                  !.next_seq_id = read_packet_large(unit.next_seq_id, unit.rest).next_seq_id,
                  !.rest = read_packet_large(unit.next_seq_id, unit.rest).rest,
                  !.packets = Append(@, read_packet_large(unit.next_seq_id, unit.rest)),
                  !.failed = ~read_packet_large(unit.next_seq_id, unit.rest).ok]
    /\ Resting

NextFraming == ReadPacketLarge

SpecFraming == InitFraming /\ [][NextFraming]_vars

\* ---- C12
\* the number of physical packets the logical payload starting at physical
\* packet i takes: through the first whose length is below 0xFFFFFF, and 0
\* when the stream ends before such a packet
RECURSIVE GroupSize(_, _)
GroupSize(lens, i) ==
    IF i > Len(lens) THEN 0
    ELSE IF lens[i] < 16777215 THEN 1
    ELSE IF GroupSize(lens, i + 1) = 0 THEN 0
    ELSE 1 + GroupSize(lens, i + 1)

RECURSIVE Bodies(_, _, _)
\* the bodies of physical packets i .. j, one after the other
Bodies(lens, i, j) ==
    IF i > j THEN <<>> ELSE PhysicalBody(i, lens[i]) \o Bodies(lens, i + 1, j)

RECURSIVE PhysBefore(_, _)
\* physical packets taken by the first k entries of the results
PhysBefore(packets, k) ==
    IF k = 0 THEN 0 ELSE packets[k].phys + PhysBefore(packets, k - 1)

\* C12: a logical payload is the concatenation, in arrival order, of the
\* bodies of consecutive physical packets through the first one shorter than
\* 0xFFFFFF bytes: a packet of exactly 0xFFFFFF bytes is followed by the read
\* of one more physical packet, and a packet of 0xFFFFFF - 1 bytes or fewer
\* ends the payload.
C12_Continuation ==
    unit.op = "read_packet" =>
        \A k \in DOMAIN unit.packets :
            LET first == PhysBefore(unit.packets, k - 1) + 1
                size == GroupSize(unit.lens, first)
                p == unit.packets[k]
            IN  /\ p.ok <=> size > 0
                /\ p.ok =>
                      /\ p.phys = size
                      /\ p.buff = Bodies(unit.lens, first, first + size - 1)
                      /\ \A i \in first .. first + size - 2 :
                             unit.lens[i] = 16777215
                      /\ unit.lens[first + size - 1] <= 16777214
                      /\ RunLen(p.buff) = (size - 1) * 16777215
                                              + unit.lens[first + size - 1]
                /\ ~p.ok =>
                      /\ \A i \in first .. Len(unit.lens) : unit.lens[i] = 16777215
                      /\ p.phys = Len(unit.lens) - first + 1
                      /\ p.exc = "OperationalError" /\ p.closed
                      /\ k = Len(unit.packets)

\* a payload assembled from two packets of 0xFFFFFF bytes and one of
\* 0xFFFFFF - 1 bytes
C12_Witness ==
    /\ unit.op = "read_packet"
    /\ unit.lens = <<16777215, 16777215, 16777214>>
    /\ Len(unit.packets) = 1
    /\ unit.packets[1].ok
    /\ unit.packets[1].phys = 3
    /\ unit.packets[1].buff =
           << [b |-> 97, n |-> 16777215], [b |-> 98, n |-> 16777215],
              [b |-> 99, n |-> 16777214] >>
    /\ unit.rest = <<>>

\* ------------------------------------------------------ the ROWDAT_1 codec
\* Type codes of the ROWDAT_1 column specification beyond those above; a
\* negated code stands for the unsigned (integers) or binary (strings) form.
MYSQL_TYPE_DECIMAL == 0
MYSQL_TYPE_NULL == 6
MYSQL_TYPE_TIMESTAMP == 7
MYSQL_TYPE_DATE == 10
MYSQL_TYPE_TIME == 11
MYSQL_TYPE_DATETIME == 12
MYSQL_TYPE_YEAR == 13
MYSQL_TYPE_NEWDATE == 14
MYSQL_TYPE_BIT == 16
MYSQL_TYPE_NEWDECIMAL == 246

\* A Python int, and every C integer of up to 64 bits, is kept as nine
\* little-endian bytes in two's complement: all of int64_t and uint64_t, and
\* the Python ints just outside them, have their exact value.
Wide(v) ==
    [k \in 1..9 |-> IF k <= 3 THEN (v \div (256 ^ (k - 1))) % 256
                    ELSE IF k = 4 THEN (v \div 16777216) % 256
                    ELSE IF v < 0 THEN 255 ELSE 0]

\* the C integer held in the bytes b (little-endian, signed or unsigned)
\* turned into a Python int: PyLong_FromLong, PyLong_FromUnsignedLong, ...
Extend(b, signed) ==
    [k \in 1..9 |-> IF k <= Len(b) THEN b[k]
                    ELSE IF signed /\ b[Len(b)] >= 128 THEN 255 ELSE 0]

\* the cast of a C integer to a type of n bytes, as memcpy writes it
Narrow(w, n) == SubSeq(w, 1, n)

\* the small value of a non-negative wide integer, HUGE when it needs more
\* than 23 bits
WideValue(w) ==
    IF w[3] >= 128 \/ \E k \in 4..9 : w[k] # 0 THEN HUGE
    ELSE w[1] + 256 * w[2] + 65536 * w[3]

PyLong(w) == [t |-> "int", i |-> 0, s |-> w]
\* a tuple slot that was never set
PyNULL == [t |-> "NULL", i |-> 0, s |-> <<>>]

\* PyLong_AsLong / PyLong_AsLongLong (signed) and PyLong_AsUnsignedLong /
\* PyLong_AsUnsignedLongLong of an item, with long of 64 bits: the value, or
\* -1 with an exception left pending
PyLong_As(item, signed) ==
    IF item.t # "int"
    THEN [v |-> Wide(0 - 1), pending |-> "TypeError"]
    ELSE IF signed /\ item.s[9] # (IF item.s[8] >= 128 THEN 255 ELSE 0)
    THEN [v |-> Wide(0 - 1), pending |-> "OverflowError"]
    ELSE IF ~signed /\ item.s[9] # 0
    THEN [v |-> Wide(0 - 1), pending |-> "OverflowError"]
    ELSE [v |-> item.s, pending |-> "none"]

\* the UTF-8 bytes of one code point, <<>> for a surrogate
utf8_bytes(c) ==
    IF c < 128 THEN <<c>>
    ELSE IF c < 2048 THEN <<192 + (c \div 64), 128 + (c % 64)>>
    ELSE IF c >= 55296 /\ c <= 57343 THEN <<>>
    ELSE IF c < 65536
    THEN <<224 + (c \div 4096), 128 + ((c \div 64) % 64), 128 + (c % 64)>>
    ELSE <<240 + (c \div 262144), 128 + ((c \div 4096) % 64),
           128 + ((c \div 64) % 64), 128 + (c % 64)>>

RECURSIVE utf8_encode(_)
\* PyUnicode_AsEncodedString(py_item, "utf-8", "strict")
utf8_encode(cp) ==
    IF cp = <<>> THEN [ok |-> TRUE, b |-> <<>>]
    ELSE IF utf8_bytes(cp[1]) = <<>> THEN [ok |-> FALSE, b |-> <<>>]
    ELSE IF utf8_encode(Tail(cp)).ok
    THEN [ok |-> TRUE, b |-> utf8_bytes(cp[1]) \o utf8_encode(Tail(cp)).b]
    ELSE [ok |-> FALSE, b |-> <<>>]

Abs(c) == IF c < 0 THEN 0 - c ELSE c

\* the bytes of the integer the codec writes for a type code, 0 for a type
\* that is not an integer
int_width(ctype) ==
    CASE Abs(ctype) = MYSQL_TYPE_TINY -> 1
      [] Abs(ctype) = MYSQL_TYPE_SHORT -> 2
      [] Abs(ctype) \in {MYSQL_TYPE_LONG, MYSQL_TYPE_INT24} -> 4
      [] Abs(ctype) = MYSQL_TYPE_LONGLONG -> 8
      [] ctype = MYSQL_TYPE_YEAR -> 2
      [] OTHER -> 0

\* the type codes whose case in the row codec is an empty "TODO"
load_todo_types ==
    {MYSQL_TYPE_BIT, MYSQL_TYPE_DECIMAL, MYSQL_TYPE_NEWDECIMAL, MYSQL_TYPE_DATE,
     MYSQL_TYPE_NEWDATE, MYSQL_TYPE_TIME, MYSQL_TYPE_DATETIME,
     MYSQL_TYPE_TIMESTAMP}
dump_todo_types == load_todo_types \ {MYSQL_TYPE_NEWDECIMAL}

\* What the caller of an entry point sees when it returns NULL: the exception
\* that was set, and SystemError when none was.
rowdat_failure(exc) ==
    [ret |-> "NULL", buf |-> <<>>, row_ids |-> <<>>, rows |-> <<>>, pos |-> 0,
     exc |-> IF exc = "none" THEN "SystemError" ELSE exc]

\* dump_rowdat_1's switch for one item: the bytes written after the is_null
\* byte; exc is the exception set, which ends the call only when ok is FALSE
dump_cell(ctype, item) ==
    IF int_width(ctype) > 0
    THEN [ok |-> TRUE,
          b |-> IF item = PyNone THEN Narrow(Wide(0), int_width(ctype))
                ELSE Narrow(PyLong_As(item, ctype > 0).v, int_width(ctype)),
          exc |-> IF item = PyNone THEN "none"
                  ELSE PyLong_As(item, ctype > 0).pending]
    ELSE IF Abs(ctype) \in StringTypes /\ item = PyNone
    THEN [ok |-> TRUE, b |-> Narrow(Wide(0), 8), exc |-> "none"]
    ELSE IF ctype \in StringTypes
    THEN IF item.t # "str" THEN [ok |-> FALSE, b |-> <<>>, exc |-> "TypeError"]
         ELSE IF ~utf8_encode(item.s).ok
         THEN [ok |-> FALSE, b |-> <<>>, exc |-> "UnicodeEncodeError"]
         ELSE [ok |-> TRUE,
               b |-> Narrow(Wide(Len(utf8_encode(item.s).b)), 8)
                     \o utf8_encode(item.s).b,
               exc |-> "none"]
    ELSE IF Abs(ctype) \in StringTypes
    THEN IF item.t # "bytes" THEN [ok |-> FALSE, b |-> <<>>, exc |-> "TypeError"]
         ELSE [ok |-> TRUE, b |-> Narrow(Wide(Len(item.s)), 8) \o item.s,
               exc |-> "none"]
    ELSE IF ctype \in dump_todo_types
    THEN [ok |-> TRUE, b |-> <<>>, exc |-> "none"]
    ELSE [ok |-> FALSE, b |-> <<>>, exc |-> "none"]

\* the later of two exceptions set
latest(pending, exc) == IF exc = "none" THEN pending ELSE exc

RECURSIVE dump_cells(_, _, _, _, _)
\* the loop over the items of one row (a row is no longer than returns);
\* pending is the exception an unchecked conversion left set
dump_cells(returns, row, i, out, pending) ==
    IF i > Len(row) THEN [ok |-> TRUE, out |-> out, exc |-> pending]
    ELSE IF ~dump_cell(returns[i], row[i]).ok
    THEN [ok |-> FALSE, out |-> out,
          exc |-> latest(pending, dump_cell(returns[i], row[i]).exc)]
    ELSE dump_cells(returns, row, i + 1,
                    out \o <<IF row[i] = PyNone THEN 1 ELSE 0>>
                        \o dump_cell(returns[i], row[i]).b,
                    latest(pending, dump_cell(returns[i], row[i]).exc))

RECURSIVE dump_rows(_, _, _, _, _, _)

\* after the items of row r: c is what the loop over them gave
dump_rows_next(returns, row_ids, rows, r, c) ==
    IF ~c.ok THEN rowdat_failure(c.exc)
    ELSE dump_rows(returns, row_ids, rows, r + 1, c.out, c.exc)

\* the loop over the rows; a result returned with an exception pending
\* reaches the caller as SystemError
dump_rows(returns, row_ids, rows, r, out, pending) ==
    IF r > Len(rows)
    THEN IF pending = "none"
         THEN [ret |-> "memoryview", buf |-> out, row_ids |-> <<>>,
               rows |-> <<>>, pos |-> 0, exc |-> "none"]
         ELSE rowdat_failure("SystemError")
    ELSE IF r > Len(row_ids) THEN rowdat_failure(pending)
    ELSE dump_rows_next(returns, row_ids, rows, r,
           dump_cells(returns, rows[r], 1,
                      out \o Narrow(PyLong_As(row_ids[r], TRUE).v, 8),
                      latest(pending, PyLong_As(row_ids[r], TRUE).pending)))

dump_rowdat_1(returns, row_ids, rows) ==
    IF Len(rows) = 0
    THEN [ret |-> "bytes", buf |-> <<>>, row_ids |-> <<>>, rows |-> <<>>,
          pos |-> 0, exc |-> "none"]
    ELSE IF Len(returns) = 0 THEN rowdat_failure("none")
    ELSE dump_rows(returns, row_ids, rows, 1, <<>>, "none")

\* the n bytes the C code reads at data[p..]: load_rowdat_1 checks no length
rd(data, p, n, beyond) == [k \in 1..n |-> mem_byte(data, p + k - 1, beyond)]

\* a string item of load_rowdat_1: i64 is the length read, p the position
\* after it.  A negative size is refused by PyUnicode_FromStringAndSize and
\* PyBytes_FromStringAndSize with SystemError, one no allocation can hold
\* with MemoryError
load_string(ctype, is_null, i64, data, p, beyond) ==
    IF is_null THEN [ok |-> TRUE, item |-> PyNone, pos |-> p, exc |-> "none"]
    ELSE IF i64[9] >= 128
    THEN [ok |-> FALSE, item |-> PyNULL, pos |-> p, exc |-> "SystemError"]
    ELSE IF WideValue(i64) = HUGE
    THEN [ok |-> FALSE, item |-> PyNULL, pos |-> p, exc |-> "MemoryError"]
    ELSE IF ctype < 0
    THEN [ok |-> TRUE, item |-> PyBytes(rd(data, p, WideValue(i64), beyond)),
          pos |-> p + WideValue(i64), exc |-> "none"]
    ELSE IF utf8_decode(rd(data, p, WideValue(i64), beyond)).ok
    THEN [ok |-> TRUE,
          item |-> PyStr(utf8_decode(rd(data, p, WideValue(i64), beyond)).cp),
          pos |-> p + WideValue(i64), exc |-> "none"]
    ELSE [ok |-> FALSE, item |-> PyNULL, pos |-> p + WideValue(i64),
          exc |-> "UnicodeDecodeError"]

\* load_rowdat_1's switch for the column at data[pos] (its is_null byte)
load_cell(ctype, data, pos, beyond) ==
    IF ctype = MYSQL_TYPE_NULL
    THEN [ok |-> TRUE, item |-> PyNone, pos |-> pos + 2, exc |-> "none"]
    ELSE IF ctype \in load_todo_types
    THEN [ok |-> TRUE, item |-> PyNULL, pos |-> pos + 1, exc |-> "none"]
    ELSE IF int_width(ctype) > 0
    THEN [ok |-> TRUE,
          item |-> IF mem_byte(data, pos, beyond) = 1 THEN PyNone
                   ELSE PyLong(Extend(rd(data, pos + 1, int_width(ctype), beyond),
                                      ctype > 0 /\ ctype # MYSQL_TYPE_YEAR)),
          pos |-> pos + 1 + int_width(ctype), exc |-> "none"]
    ELSE IF Abs(ctype) \in StringTypes
    THEN load_string(ctype, mem_byte(data, pos, beyond) = 1,
                     Extend(rd(data, pos + 1, 8, beyond), TRUE), data, pos + 9,
                     beyond)
    ELSE [ok |-> FALSE, item |-> PyNULL, pos |-> pos, exc |-> "none"]

RECURSIVE load_cells(_, _, _, _, _, _)

\* after column i: c is what the switch gave for it
load_cells_next(ctypes, data, i, beyond, row, c) ==
    IF ~c.ok THEN [ok |-> FALSE, row |-> row, pos |-> c.pos, exc |-> c.exc]
    ELSE load_cells(ctypes, data, c.pos, i + 1, beyond, Append(row, c.item))

\* the loop over the columns of one row
load_cells(ctypes, data, pos, i, beyond, row) ==
    IF i > Len(ctypes)
    THEN [ok |-> TRUE, row |-> row, pos |-> pos, exc |-> "none"]
    ELSE load_cells_next(ctypes, data, i, beyond, row,
                         load_cell(ctypes[i], data, pos, beyond))

RECURSIVE load_rows(_, _, _, _, _, _)

\* after one row: c is what the loop over its columns gave
load_rows_next(ctypes, data, beyond, ids, rows, c) ==
    IF ~c.ok THEN [rowdat_failure(c.exc) EXCEPT !.pos = c.pos]
    ELSE load_rows(ctypes, data, c.pos, beyond, ids, Append(rows, c.row))

\* while (end > data): pos is the position of the next byte to read
load_rows(ctypes, data, pos, beyond, ids, rows) ==
    IF pos > Len(data)
    THEN [ret |-> "tuple", buf |-> <<>>, row_ids |-> ids, rows |-> rows,
          pos |-> pos, exc |-> "none"]
    ELSE load_rows_next(ctypes, data, beyond,
                        Append(ids, PyLong(Extend(rd(data, pos, 8, beyond), TRUE))),
                        rows,
                        load_cells(ctypes, data, pos + 8, 1, beyond, <<>>))

\* load_rowdat_1(colspec, data): colspec is the sequence of the type codes;
\* beyond is the byte the heap holds after the object's terminating NUL
load_rowdat_1(colspec, py_data, beyond) ==
    IF py_data.t # "bytes" THEN rowdat_failure("TypeError")
    ELSE IF Len(colspec) = 0 THEN rowdat_failure("none")
    ELSE load_rows(colspec, py_data.s, 1, beyond, <<>>, <<>>)

\* ---------------------------------------------- the row codec on its own
MaxCols == 2     \* columns of a column specification
MaxRows == 2     \* rows handed to dump_rowdat_1
MaxCut == 2      \* bytes a caller cuts off the end of a buffer

\* type codes the codec converts, and those the format reserves
SupportedTypes ==
    {MYSQL_TYPE_TINY, 0 - MYSQL_TYPE_TINY, MYSQL_TYPE_LONG,
     0 - MYSQL_TYPE_LONGLONG, MYSQL_TYPE_YEAR, MYSQL_TYPE_VARCHAR,
     0 - MYSQL_TYPE_VARCHAR}
ReservedTypes == load_todo_types \cup {MYSQL_TYPE_NULL}

\* the least and the greatest value of an integer of n bytes
IntLow(n, signed) ==
    Extend([k \in 1..n |-> IF signed /\ k = n THEN 128 ELSE 0], signed)
IntHigh(n, signed) ==
    Extend([k \in 1..n |-> IF signed /\ k = n THEN 127 ELSE 255], signed)

\* the values a caller puts in a column: NULL, and the two ends of the SQL
\* type's range (0 and 2155 for YEAR; the empty string and a string of one-,
\* two- and three-byte characters for text; every kind of byte for binary)
Picks == {"null", "low", "high"}
Sample(ctype, pick) ==
    IF pick = "null" THEN PyNone
    ELSE IF ctype = MYSQL_TYPE_YEAR
    THEN PyLong(Wide(IF pick = "low" THEN 0 ELSE 2155))
    ELSE IF int_width(ctype) > 0
    THEN PyLong(IF pick = "low" THEN IntLow(int_width(ctype), ctype > 0)
                ELSE IntHigh(int_width(ctype), ctype > 0))
    ELSE IF ctype \in StringTypes
    THEN PyStr(IF pick = "low" THEN <<>> ELSE <<97, 233, 8364>>)
    ELSE IF Abs(ctype) \in StringTypes
    THEN PyBytes(IF pick = "low" THEN <<>> ELSE <<0, 255, 1>>)
    ELSE PyLong(Wide(1))
\* the row id that goes with a row: 42 and the two ends of int64_t
SampleId(pick) ==
    PyLong(IF pick = "null" THEN Wide(42)
           ELSE IF pick = "low" THEN IntLow(8, TRUE) ELSE IntHigh(8, TRUE))

NoResult == [ret |-> "none"]

\* a call of dump_rowdat_1 about to be made
InitRow ==
    \E n \in 1..MaxCols : \E colspec \in [1..n -> SupportedTypes \cup ReservedTypes] :
      \E m \in 1..MaxRows : \E picks \in [1..m -> Picks] :
        unit = [op |-> "row", stage |-> "args", colspec |-> colspec,
                row_ids |-> [r \in 1..m |-> SampleId(picks[r])],
                rows |-> [r \in 1..m |-> [i \in 1..n |-> Sample(colspec[i], picks[r])]],
                out |-> NoResult, data |-> PyNone, beyond |-> 0,
                back |-> NoResult]

\* a buffer that reaches load_rowdat_1 from elsewhere: one row, id 42, whose
\* columns all hold the is_null byte 0 and one byte 7
InitRowRaw ==
    \E n \in 1..MaxCols : \E colspec \in [1..n -> {MYSQL_TYPE_NULL, MYSQL_TYPE_TINY}] :
        unit = [op |-> "row", stage |-> "dumped", colspec |-> colspec,
                row_ids |-> <<>>, rows |-> <<>>,
                out |-> [ret |-> "bytes",
                         buf |-> Narrow(Wide(42), 8)
                                 \o [k \in 1..(2 * n) |-> IF k % 2 = 1 THEN 0 ELSE 7],
                         row_ids |-> <<>>, rows |-> <<>>, pos |-> 0,
                         exc |-> "none"],
                data |-> PyNone, beyond |-> 0, back |-> NoResult]

InitRowdat == AtRest /\ (InitRow \/ InitRowRaw)

DumpRow ==
    /\ unit.op = "row"
    /\ unit.stage = "args"
    /\ unit' = [unit EXCEPT !.stage = "dumped",
                            !.out = dump_rowdat_1(unit.colspec, unit.row_ids, unit.rows)]
    /\ Resting

\* the object a caller makes of a buffer: the object itself, or a bytes copy
\* of it without its last cut bytes
Handed(out, copy, cut) ==
    IF copy THEN PyBytes(SubSeq(out.buf, 1, Len(out.buf) - cut))
    ELSE [t |-> out.ret, i |-> 0, s |-> out.buf]

\* load_rowdat_1 on the buffer dump_rowdat_1 returned
LoadRow ==
    /\ unit.op = "row"
    /\ unit.stage = "dumped"
    /\ unit.out.ret # "NULL"
    /\ \E copy \in BOOLEAN : \E cut \in 0..MaxCut : \E beyond \in BeyondBytes :
         /\ cut <= Len(unit.out.buf)
         /\ ~copy => cut = 0
         /\ cut = 0 => beyond = 0
         /\ unit' = [unit EXCEPT
                       !.stage = "loaded",
                       !.data = Handed(unit.out, copy, cut),
                       !.beyond = beyond,
                       !.back = load_rowdat_1(unit.colspec,
                                              Handed(unit.out, copy, cut), beyond)]
    /\ Resting

NextRowdat == DumpRow \/ LoadRow

SpecRowdat == InitRowdat /\ [][NextRowdat]_vars

\* ---- C13
\* a call of dump_rowdat_1 on rows of supported types, values in range
SupportedCall ==
    /\ unit.op = "row"
    /\ unit.rows # <<>>
    /\ \A i \in DOMAIN unit.colspec : unit.colspec[i] \in SupportedTypes

\* load_rowdat_1 returned the row ids and the rows dump_rowdat_1 was given
RoundTrip ==
    /\ unit.back.ret = "tuple"
    /\ unit.back.exc = "none"
    /\ unit.back.row_ids = unit.row_ids
    /\ unit.back.rows = unit.rows

\* C13 as the specification states it: for every column specification of
\* supported types, every list of 64-bit row ids and every list of rows of
\* values within their SQL ranges (NULLs included),
\* load_row(colspec, dump_row(returns, row_ids, rows)) returns exactly
\* (row_ids, rows).  The code does not do this: dump_rowdat_1 returns a
\* memoryview, and load_rowdat_1 takes nothing but a bytes object.
C13_AsStated ==
    (/\ SupportedCall
     /\ unit.stage = "loaded"
     /\ unit.data = Handed(unit.out, FALSE, 0))
    => RoundTrip

\* What the code does give: the bytes of the buffer, copied whole into a
\* bytes object by the caller, decode to the row ids and the rows.
C13_BytesRoundTrip ==
    (/\ SupportedCall
     /\ unit.stage = "loaded"
     /\ unit.data = Handed(unit.out, TRUE, 0))
    => RoundTrip

\* one row of id 42 for the columns (LONG, -VARCHAR), handed from
\* dump_rowdat_1 to load_rowdat_1 as returned: TypeError
C13_Witness ==
    /\ unit.op = "row"
    /\ unit.stage = "loaded"
    /\ unit.colspec = <<MYSQL_TYPE_LONG, 0 - MYSQL_TYPE_VARCHAR>>
    /\ unit.row_ids = <<PyLong(Wide(42))>>
    /\ unit.out.ret = "memoryview"
    /\ unit.data.t = "memoryview"
    /\ unit.back.ret = "NULL"
    /\ unit.back.exc = "TypeError"

\* ---- C14
\* load_rowdat_1 was called on a bytes object
LoadedBytes ==
    /\ unit.op = "row"
    /\ unit.stage = "loaded"
    /\ unit.data.t = "bytes"

\* the buffer load_rowdat_1 was given lacks the last bytes of its last row
\* (a row takes nine bytes at least, and at most MaxCut are cut)
EndsMidRow == Len(unit.data.s) < Len(unit.out.buf)

\* load_rowdat_1 consumed bytes at or beyond the end of its buffer
ReadBeyondEnd == unit.back.pos - 1 > Len(unit.data.s)

\* C14 as the specification states it: load_row never reads a byte at or
\* beyond the end of the input buffer, and for every buffer that ends in the
\* middle of a row it raises ValueError instead of returning rows.  The code
\* does not do this: load_rowdat_1 compares no read with the end of the
\* buffer and raises ValueError nowhere.
C14_AsStated ==
    LoadedBytes =>
        /\ ~ReadBeyondEnd
        /\ EndsMidRow => (unit.back.ret = "NULL" /\ unit.back.exc = "ValueError")

\* the row (42, NULL) of one LONG column without its last byte: the row is
\* returned, its value read from past the end of the buffer
C14_Witness ==
    /\ LoadedBytes
    /\ unit.colspec = <<MYSQL_TYPE_LONG>>
    /\ unit.data.s = <<42, 0, 0, 0, 0, 0, 0, 0, 1, 0, 0, 0>>
    /\ Len(unit.out.buf) = 13
    /\ ReadBeyondEnd
    /\ unit.back.ret = "tuple"
    /\ unit.back.exc = "none"
    /\ unit.back.row_ids = <<PyLong(Wide(42))>>
    /\ unit.back.rows = << <<PyNone>> >>

\* ---- C15
\* the call's column specification names a reserved type
HasReserved ==
    /\ unit.op = "row"
    /\ \E i \in DOMAIN unit.colspec : unit.colspec[i] \in ReservedTypes

\* C15 as the specification states it, for the row form: given at least one
\* row, dump_row refuses a returns entry of type NULL, BIT, DECIMAL,
\* NEWDECIMAL, DATE, NEWDATE, TIME, DATETIME or TIMESTAMP with an error and
\* returns no buffer, and load_row refuses such a colspec entry with TypeError
\* and returns no rows.  The code does not do this: the cases of these types
\* in the two functions are empty, or (NULL in load_rowdat_1) skip one byte.
C15_AsStated ==
    /\ (HasReserved /\ unit.stage # "args" /\ unit.rows # <<>>)
          => (unit.out.ret = "NULL" /\ unit.out.exc # "none")
    /\ (HasReserved /\ unit.stage = "loaded" /\ unit.data.t = "bytes"
          /\ unit.data.s # <<>>)
          => (unit.back.ret = "NULL" /\ unit.back.exc = "TypeError")

\* one row (42, NULL) with a BIT column: dump_rowdat_1 returns nine bytes,
\* and load_rowdat_1 returns from them a row whose item was never set
C15_Witness ==
    /\ unit.op = "row"
    /\ unit.stage = "loaded"
    /\ unit.colspec = <<MYSQL_TYPE_BIT>>
    /\ unit.out.ret = "memoryview"
    /\ unit.out.buf = <<42, 0, 0, 0, 0, 0, 0, 0, 1>>
    /\ unit.data = PyBytes(unit.out.buf)
    /\ unit.back.ret = "tuple"
    /\ unit.back.exc = "none"
    /\ unit.back.row_ids = <<PyLong(Wide(42))>>
    /\ unit.back.rows = << <<PyNULL>> >>

\* a column of type NULL is decoded as None without complaint
C15_WitnessNull ==
    /\ unit.op = "row"
    /\ unit.stage = "loaded"
    /\ unit.colspec = <<MYSQL_TYPE_NULL>>
    /\ unit.data = PyBytes(<<42, 0, 0, 0, 0, 0, 0, 0, 0, 7>>)
    /\ unit.back.ret = "tuple"
    /\ unit.back.rows = << <<PyNone>> >>

\* ------------------------------------------- the column form of the codec
\* a < b for wide integers
WideLess(a, b) ==
    \E k \in 1..9 :
       /\ (IF k = 9 THEN (a[k] + 128) % 256 < (b[k] + 128) % 256 ELSE a[k] < b[k])
       /\ \A j \in (k + 1)..9 : a[j] = b[j]
WideIn(v, lo, hi) == ~WideLess(v, lo) /\ ~WideLess(hi, v)

\* The bounds the CHECK_ macro of an integer target compares with:
\* CHECK_TINYINT, CHECK_UNSIGNED_TINYINT, ..., CHECK_UNSIGNED_BIGINT.  INT24
\* (MEDIUMINT) is checked against 24 bits and written on four bytes.
check_low(ctype) ==
    IF ctype < 0 THEN Wide(0)
    ELSE IF ctype = MYSQL_TYPE_INT24 THEN Wide(0 - 8388608)
    ELSE IntLow(int_width(ctype), TRUE)
check_high(ctype) ==
    IF ctype = MYSQL_TYPE_INT24 THEN Wide(8388607)
    ELSE IF ctype = 0 - MYSQL_TYPE_INT24 THEN Wide(16777215)
    ELSE IntHigh(int_width(ctype), ctype > 0)

\* The CHECK_ macro of the target ctype on the value x read from a column
\* whose C type is signed or not: TRUE when it raises.  In CHECK_BIGINT the
\* constant 9223372036854775808 fits no signed type of the language: a
\* compiler that gives it a wider type compares as written, one that types it
\* unsigned long long (literal_unsigned) compares a signed x, converted to
\* unsigned, with 2^63, which is TRUE for every x >= 0.
check_raises(ctype, x, signed_input, literal_unsigned) ==
    IF ctype = MYSQL_TYPE_YEAR
    THEN ~(WideIn(x, Wide(0), Wide(99)) \/ WideIn(x, Wide(1901), Wide(2155)))
    ELSE IF ctype = MYSQL_TYPE_LONGLONG /\ signed_input /\ literal_unsigned
    THEN ~WideLess(x, Wide(0))
    ELSE ~WideIn(x, check_low(ctype), check_high(ctype))

\* dump_rowdat_1_numpy's switch for row j of one column: the bytes written
\* after the is_null byte.  col is [dtype, data, masked, mask], dtype the C
\* type [w, signed] of the array's items.  Only integer arrays are modelled,
\* which the string targets refuse.
dump_column_cell(ctype, col, j, is_null, literal_unsigned) ==
    IF int_width(ctype) = 0
    THEN [ok |-> FALSE, b |-> <<>>, exc |-> "ValueError"]
    ELSE IF check_raises(ctype, col.data[j], col.dtype.signed, literal_unsigned)
    THEN [ok |-> FALSE, b |-> <<>>, exc |-> "ValueError"]
    ELSE [ok |-> TRUE,
          b |-> Narrow(IF is_null THEN Wide(0) ELSE col.data[j], int_width(ctype)),
          exc |-> "none"]

\* is_null of row j of a column: its mask byte, 0 without a mask
mask_is_null(col, j) == col.masked /\ col.mask[j] # 0

RECURSIVE dump_column_cells(_, _, _, _, _, _)
\* the loop over the columns of row j
dump_column_cells(returns, cols, j, i, out, literal_unsigned) ==
    IF i > Len(returns) THEN [ok |-> TRUE, out |-> out, exc |-> "none"]
    ELSE IF ~dump_column_cell(returns[i], cols[i], j, mask_is_null(cols[i], j),
                              literal_unsigned).ok
    THEN [ok |-> FALSE, out |-> out, exc |-> "ValueError"]
    ELSE dump_column_cells(returns, cols, j, i + 1,
           out \o <<IF mask_is_null(cols[i], j) THEN 1 ELSE 0>>
               \o dump_column_cell(returns[i], cols[i], j,
                                   mask_is_null(cols[i], j), literal_unsigned).b,
           literal_unsigned)

RECURSIVE dump_column_rows(_, _, _, _, _, _)

dump_column_rows_next(returns, row_ids, cols, j, c, literal_unsigned) ==
    IF ~c.ok THEN rowdat_failure(c.exc)
    ELSE dump_column_rows(returns, row_ids, cols, j + 1, c.out, literal_unsigned)

\* the loop over the rows
dump_column_rows(returns, row_ids, cols, j, out, literal_unsigned) ==
    IF j > Len(row_ids)
    THEN [ret |-> "memoryview", buf |-> out, row_ids |-> <<>>, rows |-> <<>>,
          pos |-> 0, exc |-> "none"]
    ELSE dump_column_rows_next(returns, row_ids, cols, j,
           dump_column_cells(returns, cols, j, 1,
                             out \o Narrow(row_ids[j], 8), literal_unsigned),
           literal_unsigned)

\* dump_rowdat_1_numpy(returns, row_ids, cols)
dump_rowdat_1_numpy(returns, row_ids, cols, literal_unsigned) ==
    IF Len(returns) # Len(cols) THEN rowdat_failure("ValueError")
    ELSE IF Len(row_ids) = 0 \/ Len(returns) = 0
    THEN [ret |-> "bytes", buf |-> <<>>, row_ids |-> <<>>, rows |-> <<>>,
          pos |-> 0, exc |-> "none"]
    ELSE IF \E i \in DOMAIN cols :
               \/ Len(cols[i].data) # Len(row_ids)
               \/ cols[i].masked /\ Len(cols[i].mask) # Len(row_ids)
    THEN rowdat_failure("ValueError")
    ELSE dump_column_rows(returns, row_ids, cols, 1, <<>>, literal_unsigned)

RECURSIVE load_column_scan(_, _, _, _, _)
\* load_rowdat_1_numpy's first pass, which counts the rows: pos is the
\* position of the next byte, i the column (0 for the row id).  CHECKSIZE(x)
\* raises ValueError when fewer than x bytes remain.  Only integer columns
\* are modelled.
load_column_scan(ctypes, data, pos, i, n_rows) ==
    IF i = 0 /\ pos > Len(data)
    THEN [ok |-> TRUE, n_rows |-> n_rows, exc |-> "none"]
    ELSE IF i = 0
    THEN IF pos + 7 > Len(data)
         THEN [ok |-> FALSE, n_rows |-> n_rows, exc |-> "ValueError"]
         ELSE load_column_scan(ctypes, data, pos + 8, 1, n_rows)
    ELSE IF i > Len(ctypes)
    THEN load_column_scan(ctypes, data, pos, 0, n_rows + 1)
    ELSE IF pos > Len(data)
    THEN [ok |-> FALSE, n_rows |-> n_rows, exc |-> "ValueError"]
    ELSE IF ctypes[i] \in ReservedTypes
    THEN [ok |-> FALSE, n_rows |-> n_rows, exc |-> "TypeError"]
    ELSE IF pos + int_width(ctypes[i]) > Len(data)
    THEN [ok |-> FALSE, n_rows |-> n_rows, exc |-> "ValueError"]
    ELSE load_column_scan(ctypes, data, pos + 1 + int_width(ctypes[i]), i + 1,
                          n_rows)

RECURSIVE column_offset(_, _)
\* the bytes of a row before the is_null byte of column i
column_offset(ctypes, i) ==
    IF i = 1 THEN 8
    ELSE column_offset(ctypes, i - 1) + 1 + int_width(ctypes[i - 1])

\* load_rowdat_1_numpy's second pass on a buffer of n_rows rows of integer
\* columns: row j starts at (j - 1) * size; a NULL cell is stored as 0 with
\* its mask byte set
load_column_arrays(ctypes, data, n_rows, size) ==
    [ret |-> "tuple", exc |-> "none",
     row_ids |-> [j \in 1..n_rows |->
                    Extend(SubSeq(data, (j - 1) * size + 1, (j - 1) * size + 8),
                           FALSE)],
     cols |-> [i \in 1..Len(ctypes) |->
        [data |-> [j \in 1..n_rows |->
                     IF data[(j - 1) * size + column_offset(ctypes, i) + 1] = 1
                     THEN Wide(0)
                     ELSE Extend(SubSeq(data,
                                   (j - 1) * size + column_offset(ctypes, i) + 2,
                                   (j - 1) * size + column_offset(ctypes, i) + 1
                                       + int_width(ctypes[i])),
                                 ctypes[i] > 0)],
         mask |-> [j \in 1..n_rows |->
                     IF data[(j - 1) * size + column_offset(ctypes, i) + 1] = 1
                     THEN 1 ELSE 0]]]]

\* after the first pass: c is what it gave
load_column_next(ctypes, data, c) ==
    IF ~c.ok THEN rowdat_failure(c.exc)
    ELSE load_column_arrays(ctypes, data, c.n_rows,
                            column_offset(ctypes, Len(ctypes) + 1))

\* load_rowdat_1_numpy(colspec, data)
load_rowdat_1_numpy(colspec, py_data) ==
    IF py_data.t # "bytes" THEN rowdat_failure("TypeError")
    ELSE IF Len(colspec) = 0 THEN rowdat_failure("none")
    ELSE load_column_next(colspec, py_data.s,
                          load_column_scan(colspec, py_data.s, 1, 0, 0))

\* --------------------------------------------- the column codec on its own
IntTargets ==
    {MYSQL_TYPE_TINY, 0 - MYSQL_TYPE_TINY, MYSQL_TYPE_SHORT, 0 - MYSQL_TYPE_SHORT,
     MYSQL_TYPE_INT24, 0 - MYSQL_TYPE_INT24, MYSQL_TYPE_LONG, 0 - MYSQL_TYPE_LONG,
     MYSQL_TYPE_LONGLONG, 0 - MYSQL_TYPE_LONGLONG, MYSQL_TYPE_YEAR}

\* the C types of the items of an integer array: int8_t .. uint64_t
DTypes == [w : {1, 2, 4, 8}, signed : BOOLEAN]

\* v + 1 and v - 1
WideSucc(w) ==
    IF \A k \in 1..9 : w[k] = 255 THEN Wide(0)
    ELSE [i \in 1..9 |->
            IF \A j \in 1..i : w[j] = 255 THEN 0
            ELSE IF \A j \in 1..(i - 1) : w[j] = 255 THEN w[i] + 1
            ELSE w[i]]
WidePred(w) ==
    IF \A k \in 1..9 : w[k] = 0 THEN Wide(0 - 1)
    ELSE [i \in 1..9 |->
            IF \A j \in 1..i : w[j] = 0 THEN 255
            ELSE IF \A j \in 1..(i - 1) : w[j] = 0 THEN w[i] - 1
            ELSE w[i]]

\* the values a column is filled with: both ends of every target's range,
\* the values next to them, and the ends of the two ranges of YEAR
Boundaries ==
    UNION {{check_low(t), WidePred(check_low(t)), check_high(t),
            WideSucc(check_high(t))} : t \in IntTargets \ {MYSQL_TYPE_YEAR}}
    \cup {Wide(0 - 1), Wide(0), Wide(99), Wide(100), Wide(1900), Wide(1901),
          Wide(2155), Wide(2156)}
ColumnValues(dtype) ==
    {v \in Boundaries :
        WideIn(v, IntLow(dtype.w, dtype.signed), IntHigh(dtype.w, dtype.signed))}

\* a mask: none, all clear, or set for the first row only
MaskKinds == {"none", "clear", "set"}
Column(dtype, data, kind, m) ==
    [dtype |-> dtype, data |-> data, masked |-> kind # "none",
     mask |-> IF kind = "none" THEN <<>>
              ELSE [j \in 1..m |-> IF kind = "set" /\ j = 1 THEN 1 ELSE 0]]

ColumnCall(returns, row_ids, cols) ==
    [op |-> "column", stage |-> "args", returns |-> returns, row_ids |-> row_ids,
     cols |-> cols, literal_unsigned |-> FALSE, out |-> NoResult,
     data |-> PyNone, back |-> NoResult]

\* one column of an integer target filled with one value, lengths agreeing
InitColumnValues ==
    \E ctype \in IntTargets : \E dtype \in DTypes : \E v \in ColumnValues(dtype) :
      \E n \in 1..MaxRows : \E kind \in MaskKinds :
        unit = ColumnCall(<<ctype>>, [j \in 1..n |-> Wide(41 + j)],
                          <<Column(dtype, [j \in 1..n |-> v], kind, n)>>)

\* one int32_t column of zeros whose length, and whose mask's length, need
\* not be that of row_ids; returns may have one entry too many
InitColumnLengths ==
    \E ctype \in {MYSQL_TYPE_LONG} \cup ReservedTypes :
      \E n \in 0..MaxRows : \E d \in 0..MaxRows : \E m \in 0..MaxRows :
        \E kind \in {"none", "clear"} : \E extra \in BOOLEAN :
          /\ kind = "none" => m = 0
          /\ unit = ColumnCall(IF extra THEN <<ctype, ctype>> ELSE <<ctype>>,
                               [j \in 1..n |-> Wide(41 + j)],
                               <<Column([w |-> 4, signed |-> TRUE],
                                        [j \in 1..d |-> Wide(0)], kind, m)>>)

InitColumn == AtRest /\ (InitColumnValues \/ InitColumnLengths)

\* dump_rowdat_1_numpy, as either kind of compiler built it
DumpColumn ==
    /\ unit.op = "column"
    /\ unit.stage = "args"
    /\ \E literal_unsigned \in BOOLEAN :
         unit' = [unit EXCEPT
                    !.stage = "dumped",
                    !.literal_unsigned = literal_unsigned,
                    !.out = dump_rowdat_1_numpy(unit.returns, unit.row_ids,
                                                unit.cols, literal_unsigned)]
    /\ Resting

\* load_rowdat_1_numpy on the buffer dump_rowdat_1_numpy returned, or on a
\* bytes copy of it.  A YEAR column is left out: the first pass sets neither
\* its item size nor its format, and what follows is not modelled.
LoadColumn ==
    /\ unit.op = "column"
    /\ unit.stage = "dumped"
    /\ unit.out.ret # "NULL"
    /\ \A i \in DOMAIN unit.returns : unit.returns[i] # MYSQL_TYPE_YEAR
    /\ \E copy \in BOOLEAN :
         unit' = [unit EXCEPT
                    !.stage = "loaded",
                    !.data = Handed(unit.out, copy, 0),
                    !.back = load_rowdat_1_numpy(unit.returns,
                                                 Handed(unit.out, copy, 0))]
    /\ Resting

NextColumn == DumpColumn \/ LoadColumn

SpecColumn == InitColumn /\ [][NextColumn]_vars

\* ---- C16
\* the value v lies in the range of the SQL type of target ctype
InSqlRange(ctype, v) ==
    IF ctype = MYSQL_TYPE_YEAR
    THEN WideIn(v, Wide(0), Wide(99)) \/ WideIn(v, Wide(1901), Wide(2155))
    ELSE WideIn(v, check_low(ctype), check_high(ctype))

\* a call of dump_rowdat_1_numpy with one column of an integer target whose
\* lengths agree
OneColumnCall ==
    /\ unit.op = "column"
    /\ unit.stage # "args"
    /\ Len(unit.returns) = 1 /\ Len(unit.cols) = 1
    /\ unit.returns[1] \in IntTargets
    /\ Len(unit.row_ids) > 0
    /\ Len(unit.cols[1].data) = Len(unit.row_ids)
    /\ unit.cols[1].masked => Len(unit.cols[1].mask) = Len(unit.row_ids)

\* the bytes of row j in the buffer returned: is_null, then the payload
CellAt(j) ==
    SubSeq(unit.out.buf, (j - 1) * (9 + int_width(unit.returns[1])) + 9,
           j * (9 + int_width(unit.returns[1])))

\* the cells are encoded and decoded as C16 says: a masked cell as
\* is_null = 1 and zeros, decoded as NULL; any other cell as is_null = 0 and
\* its value, decoded as that value
MaskedAsNull ==
    /\ unit.out.ret = "memoryview"
    /\ \A j \in DOMAIN unit.row_ids :
          CellAt(j) =
             IF mask_is_null(unit.cols[1], j)
             THEN <<1>> \o Narrow(Wide(0), int_width(unit.returns[1]))
             ELSE <<0>> \o Narrow(unit.cols[1].data[j], int_width(unit.returns[1]))
    /\ (unit.stage = "loaded" /\ unit.data.t = "bytes") =>
          /\ unit.back.ret = "tuple"
          /\ \A j \in DOMAIN unit.row_ids :
                IF mask_is_null(unit.cols[1], j)
                THEN unit.back.cols[1].mask[j] = 1
                ELSE /\ unit.back.cols[1].mask[j] = 0
                     /\ unit.back.cols[1].data[j] = unit.cols[1].data[j]

\* C16 as the specification states it: in dump_column a cell whose mask byte
\* is set is encoded as is_null = 1 followed by zeros of the target width,
\* whatever value the data column holds there (a fill value outside the
\* target's range included), load_column decodes it as NULL, and all other
\* cells round-trip unchanged.  The code does not do this: the range check
\* comes before the test of is_null, so a masked fill value outside the range
\* raises ValueError.  (Stated for the builds whose compiler gives
\* CHECK_BIGINT's constant a wide type.)
C16_AsStated ==
    (/\ OneColumnCall
     /\ ~unit.literal_unsigned
     /\ \A j \in DOMAIN unit.row_ids :
           ~mask_is_null(unit.cols[1], j)
               => InSqlRange(unit.returns[1], unit.cols[1].data[j]))
    => MaskedAsNull

\* What the code does give: the same, when the fill values of the masked
\* cells lie in the target's range too.
C16_FillInRange ==
    (/\ OneColumnCall
     /\ ~unit.literal_unsigned
     /\ \A j \in DOMAIN unit.row_ids :
           InSqlRange(unit.returns[1], unit.cols[1].data[j]))
    => MaskedAsNull

\* a TINYINT column of one masked cell whose fill value is 128: ValueError
C16_Witness ==
    /\ OneColumnCall
    /\ ~unit.literal_unsigned
    /\ unit.returns = <<MYSQL_TYPE_TINY>>
    /\ unit.cols[1].dtype = [w |-> 2, signed |-> TRUE]
    /\ unit.cols[1].data = <<Wide(128)>>
    /\ unit.cols[1].mask = <<1>>
    /\ unit.out.ret = "NULL"
    /\ unit.out.exc = "ValueError"

\* ---- C17
\* no cell of the column is masked
Unmasked == \A j \in DOMAIN unit.row_ids : ~mask_is_null(unit.cols[1], j)

\* every value was accepted and written, with its numeric value, at the
\* target's width
WrittenAsIs ==
    /\ unit.out.ret = "memoryview"
    /\ \A j \in DOMAIN unit.row_ids :
          /\ CellAt(j)[1] = 0
          /\ Len(CellAt(j)) = 1 + int_width(unit.returns[1])
          /\ Extend(Tail(CellAt(j)), unit.returns[1] > 0) = unit.cols[1].data[j]

Rejected == unit.out.ret = "NULL" /\ unit.out.exc = "ValueError"

\* C17 as the specification states it: in dump_column, for every integer
\* target and every integer source width, a non-NULL value is accepted if and
\* only if it lies in the target's inclusive range; an accepted value is
\* written with the same numeric value at the target width, and a rejected
\* one raises ValueError and no buffer is returned.  The code does this only
\* when its compiler gives the constant 9223372036854775808 of CHECK_BIGINT a
\* type wider than 64 bits; compiled with the constant typed unsigned long
\* long, BIGINT from a signed source rejects every value >= 0.
C17_AsStated ==
    (OneColumnCall /\ Unmasked) =>
        IF \A j \in DOMAIN unit.row_ids :
              InSqlRange(unit.returns[1], unit.cols[1].data[j])
        THEN WrittenAsIs
        ELSE Rejected

\* What the code gives in every build: the claim for every target but
\* BIGINT from a signed source, and for that one too in a build whose
\* compiler gives the constant a wide type.
C17_OtherTargets ==
    (/\ OneColumnCall /\ Unmasked
     /\ \/ ~unit.literal_unsigned
        \/ unit.returns[1] # MYSQL_TYPE_LONGLONG
        \/ ~unit.cols[1].dtype.signed) =>
        IF \A j \in DOMAIN unit.row_ids :
              InSqlRange(unit.returns[1], unit.cols[1].data[j])
        THEN WrittenAsIs
        ELSE Rejected

\* a BIGINT column filled from an int64 array holding 0, no mask, in a build
\* whose compiler types the constant unsigned: ValueError
C17_Witness ==
    /\ OneColumnCall
    /\ unit.literal_unsigned
    /\ unit.returns = <<MYSQL_TYPE_LONGLONG>>
    /\ unit.cols[1].dtype = [w |-> 8, signed |-> TRUE]
    /\ unit.cols[1].data = <<Wide(0)>>
    /\ ~unit.cols[1].masked
    /\ Rejected

\* TINYINT from 128 and UNSIGNED TINYINT from -1 are rejected in every build
C17_WitnessTiny ==
    /\ OneColumnCall /\ Unmasked /\ Rejected
    /\ \/ unit.returns = <<MYSQL_TYPE_TINY>> /\ unit.cols[1].data = <<Wide(128)>>
       \/ unit.returns = <<0 - MYSQL_TYPE_TINY>> /\ unit.cols[1].data = <<Wide(0 - 1)>>

\* ---- C18
\* some data column, or some mask that is present, has not the length of
\* row_ids
LengthsDiffer ==
    \E i \in DOMAIN unit.cols :
       \/ Len(unit.cols[i].data) # Len(unit.row_ids)
       \/ unit.cols[i].masked /\ Len(unit.cols[i].mask) # Len(unit.row_ids)

\* C18 as the specification states it: dump_column raises ValueError
\* whenever the length of some data column, or of some mask that is present,
\* differs from the length of row_ids, for every length of row_ids, zero
\* included, and produces no output.  The code does not do this for an empty
\* row_ids: it returns b"" before it compares any length.
C18_AsStated ==
    (unit.op = "column" /\ unit.stage # "args" /\ LengthsDiffer) => Rejected

\* What the code does give: the claim for every row_ids that is not empty.
C18_NonEmptyRowIds ==
    (/\ unit.op = "column" /\ unit.stage # "args" /\ LengthsDiffer
     /\ Len(unit.row_ids) > 0)
    => Rejected

\* an empty row_ids with a data column of one value: b"" is returned
C18_Witness ==
    /\ unit.op = "column"
    /\ unit.stage = "dumped"
    /\ unit.returns = <<MYSQL_TYPE_LONG>>
    /\ unit.row_ids = <<>>
    /\ unit.cols[1].data = <<Wide(0)>>
    /\ ~unit.cols[1].masked
    /\ unit.out.ret = "bytes"
    /\ unit.out.buf = <<>>
    /\ unit.out.exc = "none"

\* ------------------------------------- length-coded strings on their own
MaxCells == 2     \* cells of a row payload

RECURSIVE RunAt(_, _)
\* byte i of a byte string in run form
RunAt(s, i) == IF i <= s[1].n THEN s[1].b ELSE RunAt(Tail(s), i - s[1].n)

\* the first n bytes of s (all of s when it is shorter), byte by byte
RunHead(s, n) == [i \in 1..Min(n, RunLen(s)) |-> RunAt(s, i)]

\* read_length_coded_string on a cursor in run form: r is what
\* read_length_encoded_integer gave on the cursor's first nine bytes, of
\* which it left `left` unread
length_coded_runs(s, r, left) ==
    [is_null |-> r.is_null,
     value |-> r.value,
     out |-> IF r.is_null THEN <<>>
             ELSE RunTake(RunDrop(s, Min(9, RunLen(s)) - left),
                          Min(r.value, RunLen(s) - (Min(9, RunLen(s)) - left))),
     data |-> IF r.is_null THEN RunDrop(s, Min(9, RunLen(s)) - left)
              ELSE RunDrop(s, (Min(9, RunLen(s)) - left)
                              + Min(r.value, RunLen(s) - (Min(9, RunLen(s)) - left)))]

read_length_coded_runs(s) ==
    length_coded_runs(s, read_length_encoded_integer(RunHead(s, 9)),
                      Len(read_length_encoded_integer(RunHead(s, 9)).data))

\* The lengths the server sends, and the prefix forms of the protocol: the
\* length itself below 251, or 0xFC, 0xFD, 0xFE followed by the length in 2,
\* 3 or 8 little-endian bytes.
CellLengths == {0, 1, 250, 251, 255, 256, 65535, 65536, 16777215, 16777216}
PrefixForms == {"byte", "FC", "FD", "FE"}
FormHolds(form, n) ==
    CASE form = "byte" -> n < MYSQL_COLUMN_NULL
      [] form = "FC" -> n < 65536
      [] form = "FD" -> n < 16777216
      [] form = "FE" -> TRUE
Prefix(form, n) ==
    CASE form = "byte" -> <<n>>
      [] form = "FC" -> <<MYSQL_COLUMN_UNSIGNED_SHORT, n % 256, n \div 256>>
      [] form = "FD" -> <<MYSQL_COLUMN_UNSIGNED_INT24, n % 256, (n \div 256) % 256,
                          n \div 65536>>
      [] form = "FE" -> <<MYSQL_COLUMN_UNSIGNED_INT64, n % 256, (n \div 256) % 256,
                          (n \div 65536) % 256, n \div 16777216, 0, 0, 0, 0>>

\* a cell of n bytes b behind its prefix, in run form
Cell(form, n, b) ==
    [i \in 1..Len(Prefix(form, n)) |-> [b |-> Prefix(form, n)[i], n |-> 1]]
    \o (IF n = 0 THEN <<>> ELSE << [b |-> b, n |-> n] >>)
NullCell == << [b |-> MYSQL_COLUMN_NULL, n |-> 1] >>

\* what follows the first cell in the payload: nothing, a NULL cell or a
\* cell of one byte (one fewer with every cell the payload already has)
RECURSIVE CellTails(_)
CellTails(k) ==
    IF k = 0 THEN {<<>>}
    ELSE {<<>>} \cup {NullCell \o t : t \in CellTails(k - 1)}
                \cup {Cell("byte", 1, 98) \o t : t \in CellTails(k - 1)}

\* a row payload whose first cell has one of the lengths in one of its forms
InitCells ==
    /\ AtRest
    /\ \E n \in CellLengths : \E form \in PrefixForms, null \in BOOLEAN :
         \E tail \in CellTails(MaxCells - 1) :
           /\ FormHolds(form, n)
           /\ null => (form = "byte" /\ n = 0)
           /\ unit = [op |-> "cells", form |-> form, n |-> n, null |-> null,
                      tail |-> tail,
                      data |-> (IF null THEN NullCell ELSE Cell(form, n, 97)) \o tail,
                      cells |-> <<>>]

\* one call of read_length_coded_string on what is left of the payload
ReadCell ==
    /\ unit.op = "cells"
    /\ unit.data # <<>>
    /\ unit' = [unit EXCEPT
                  !.cells = Append(@, [is_null |-> read_length_coded_runs(unit.data).is_null,
                                       value |-> read_length_coded_runs(unit.data).value,
                                       out |-> read_length_coded_runs(unit.data).out]),
                  !.data = read_length_coded_runs(unit.data).data]
    /\ Resting

NextCells == ReadCell

SpecCells == InitCells /\ [][NextCells]_vars


\* the shortest form that holds a length, which is the one the server sends
ShortestForm(n) ==
    IF n < MYSQL_COLUMN_NULL THEN "byte"
    ELSE IF n < 65536 THEN "FC" ELSE IF n < 16777216 THEN "FD" ELSE "FE"
FirstCellRead == unit.op = "cells" /\ Len(unit.cells) >= 1
Content(n) == IF n = 0 THEN <<>> ELSE << [b |-> 97, n |-> n] >>
DecodesToItself ==
    /\ ~unit.cells[1].is_null
    /\ unit.cells[1].value = unit.n
    /\ unit.cells[1].out = Content(unit.n)

\* C19: a first byte 0xFB decodes to NULL, and each of the lengths 0, 1, 250,
\* 251, 0xFFFF, 0x10000, 0xFFFFFF and 0x1000000, sent in its prefix form
\* (the byte itself, or 0xFC, 0xFD, 0xFE and 2, 3 or 8 little-endian bytes),
\* decodes to itself and the cell receives exactly that many bytes.
C19_AsStated ==
    FirstCellRead =>
        IF unit.null THEN unit.cells[1].is_null
        ELSE (/\ unit.form = ShortestForm(unit.n)
              /\ unit.n \in {0, 1, 250, 251, 65535, 65536, 16777215, 16777216})
             => DecodesToItself

\* the one-byte, two-byte and eight-byte forms do decode to the length sent
C19_OtherForms ==
    (FirstCellRead /\ ~unit.null /\ unit.form # "FD") => DecodesToItself

\* the length 0x10000 sent as FD 00 00 01 in front of 0x10000 bytes and one
\* further cell: the decoder returns 0x1000000 and the first cell is given
\* the rest of the payload, the second cell included
C19_Witness ==
    /\ FirstCellRead
    /\ ~unit.null /\ unit.form = "FD" /\ unit.n = 65536
    /\ unit.tail = Cell("byte", 1, 98)
    /\ unit.cells[1].value = 16777216
    /\ unit.cells[1].out = << [b |-> 97, n |-> 65536], [b |-> 1, n |-> 1],
                              [b |-> 98, n |-> 1] >>
    /\ unit.data = <<>>


\* ------------------------------------------- State_init: the column names
MaxFields == 3    \* columns of a result description

\* Strings are sequences of characters. A column's bare name is a, b or the
\* alias "t.a"; its table name is t, u or empty (an expression column).
BareNames == { <<"a">>, <<"b">>, <<"t", ".", "a">> }
TableNames == { <<"t">>, <<"u">>, <<>> }

\* PyUnicode_FromFormat("%U.%U", table_name, name)
FromFormat(table_name, name) == table_name \o <<".">> \o name

\* the duplicate test of State_init: the field's name against the names
\* already stored in py_names
dup_found(py_names, name) == \E j \in 1..Len(py_names) : py_names[j] = name

RECURSIVE State_init_names(_, _, _)
\* the loop of State_init over the fields, from column i on
State_init_names(fields, i, py_names) ==
    IF i > Len(fields) THEN py_names
    ELSE State_init_names(fields, i + 1,
             Append(py_names,
                    IF dup_found(py_names, fields[i].name)
                    THEN FromFormat(fields[i].table_name, fields[i].name)
                    ELSE fields[i].name))

InitNames ==
    /\ AtRest
    /\ \E n \in 1..MaxFields :
         \E fields \in [1..n -> [name : BareNames, table_name : TableNames]] :
           unit = [op |-> "names", fields |-> fields, done |-> FALSE,
                   py_names |-> <<>>]

\* State_init on a result with these fields
NameColumns ==
    /\ unit.op = "names"
    /\ ~unit.done
    /\ unit' = [unit EXCEPT !.done = TRUE,
                            !.py_names = State_init_names(unit.fields, 1, <<>>)]
    /\ Resting

NextNames == NameColumns

SpecNames == InitNames /\ [][NextNames]_vars

Named == unit.op = "names" /\ unit.done
NoDuplicateNames ==
    \A i, j \in 1..Len(unit.py_names) : i # j => unit.py_names[i] # unit.py_names[j]
RepeatsPrefixed ==
    \A i \in 1..Len(unit.fields) :
        (\E j \in 1..(i - 1) : unit.fields[j].name = unit.fields[i].name)
        => unit.py_names[i] = FromFormat(unit.fields[i].table_name, unit.fields[i].name)

\* C20: after state construction the names of a result are pairwise
\* different, whatever columns the server describes, and a name that repeats
\* an earlier bare name has become table_name + "." + name.
C20_AsStated == Named => (NoDuplicateNames /\ RepeatsPrefixed)

\* the second half alone: every repeated bare name is prefixed
C20_RepeatsPrefixed == Named => RepeatsPrefixed

\* three columns a of the same table t: the names are a, t.a and t.a
C20_Witness ==
    /\ Named
    /\ unit.fields = [i \in 1..3 |-> [name |-> <<"a">>, table_name |-> <<"t">>]]
    /\ unit.py_names = << <<"a">>, <<"t", ".", "a">>, <<"t", ".", "a">> >>


\* ------------------------------------------------- date and time cell texts
\* (s)[k] of a C string: the byte at offset k
At(s, k) == s[k + 1]
\* (s)+k with length l: the l bytes from offset k on
From(s, k, l) == SubSeq(s, k + 1, k + l)
IsDigitAt(s, k) == At(s, k) >= 48 /\ At(s, k) <= 57
InRangeAt(s, k, lo, hi) == At(s, k) >= lo /\ At(s, k) <= hi

CHR2INT1(x) == At(x, 1) - 48
CHR2INT2(x) == (At(x, 0) - 48) * 10 + (At(x, 1) - 48)
CHR2INT3(x) == (At(x, 0) - 48) * 100 + (At(x, 1) - 48) * 10 + (At(x, 2) - 48)
CHR2INT4(x) == (At(x, 0) - 48) * 1000 + (At(x, 1) - 48) * 100
               + (At(x, 2) - 48) * 10 + (At(x, 3) - 48)
CHR2INT6(x) == (At(x, 0) - 48) * 100000 + (At(x, 1) - 48) * 10000
               + (At(x, 2) - 48) * 1000 + (At(x, 3) - 48) * 100
               + (At(x, 4) - 48) * 10 + (At(x, 5) - 48)

CHECK_DATE_STR(s, s_l) ==
    /\ s_l = 10
    /\ IsDigitAt(s, 0) /\ IsDigitAt(s, 1) /\ IsDigitAt(s, 2) /\ IsDigitAt(s, 3)
    /\ At(s, 4) = 45
    /\ \/ At(s, 5) = 49 /\ InRangeAt(s, 6, 48, 50)
       \/ At(s, 5) = 48 /\ InRangeAt(s, 6, 49, 57)
    /\ At(s, 7) = 45
    /\ \/ InRangeAt(s, 8, 48, 50) /\ IsDigitAt(s, 9)
       \/ At(s, 8) = 51 /\ InRangeAt(s, 9, 48, 49)
    /\ ~(At(s, 0) = 48 /\ At(s, 1) = 48 /\ At(s, 2) = 48 /\ At(s, 3) = 48)
    /\ ~(At(s, 5) = 48 /\ At(s, 6) = 48)
    /\ ~(At(s, 8) = 48 /\ At(s, 9) = 48)

CHECK_TIME_STR(s, s_l) ==
    /\ s_l = 8
    /\ \/ InRangeAt(s, 0, 48, 49) /\ IsDigitAt(s, 1)
       \/ At(s, 0) = 50 /\ InRangeAt(s, 1, 48, 51)
    /\ At(s, 2) = 58
    /\ InRangeAt(s, 3, 48, 53) /\ IsDigitAt(s, 4)
    /\ At(s, 5) = 58
    /\ InRangeAt(s, 6, 48, 53) /\ IsDigitAt(s, 7)

CHECK_MICROSECONDS_STR(s, s_l) ==
    /\ s_l = 7
    /\ At(s, 0) = 46
    /\ \A k \in 1..6 : IsDigitAt(s, k)

CHECK_MILLISECONDS_STR(s, s_l) ==
    /\ s_l = 4
    /\ At(s, 0) = 46
    /\ \A k \in 1..3 : IsDigitAt(s, k)

CHECK_MICRO_TIME_STR(s, s_l) ==
    s_l = 15 /\ CHECK_TIME_STR(s, 8) /\ CHECK_MICROSECONDS_STR(From(s, 8, 7), 7)

CHECK_MILLI_TIME_STR(s, s_l) ==
    s_l = 12 /\ CHECK_TIME_STR(s, 8) /\ CHECK_MILLISECONDS_STR(From(s, 8, 4), 4)

IsSeparator(b) == b = 32 \/ b = 84

CHECK_DATETIME_STR(s, s_l) ==
    /\ s_l = 19
    /\ CHECK_DATE_STR(s, 10)
    /\ IsSeparator(At(s, 10))
    /\ CHECK_TIME_STR(From(s, 11, 8), 8)

CHECK_MICRO_DATETIME_STR(s, s_l) ==
    /\ s_l = 26
    /\ CHECK_DATE_STR(s, 10)
    /\ IsSeparator(At(s, 10))
    /\ CHECK_MICRO_TIME_STR(From(s, 11, 15), 15)

\* the time part is handed to CHECK_MICRO_TIME_STR with the length 12
CHECK_MILLI_DATETIME_STR(s, s_l) ==
    /\ s_l = 23
    /\ CHECK_DATE_STR(s, 10)
    /\ IsSeparator(At(s, 10))
    /\ CHECK_MICRO_TIME_STR(From(s, 11, 12), 12)

CHECK_ANY_DATETIME_STR(s, s_l) ==
    \/ s_l = 19 /\ CHECK_DATETIME_STR(s, s_l)
    \/ s_l = 23 /\ CHECK_MILLI_DATETIME_STR(s, s_l)
    \/ s_l = 26 /\ CHECK_MICRO_DATETIME_STR(s, s_l)

IS_DATETIME_MILLI(s_l) == s_l = 23
IS_DATETIME_MICRO(s_l) == s_l = 26

CHECK_ZERO_DATE_STR(s, s_l) ==
    s_l = 10 /\ s = <<48, 48, 48, 48, 45, 48, 48, 45, 48, 48>>

CHECK_ZERO_TIME_STR(s, s_l) ==
    s_l = 8 /\ s = <<48, 48, 58, 48, 48, 58, 48, 48>>

CHECK_ZERO_MILLI_TIME_STR(s, s_l) ==
    /\ s_l = 12
    /\ CHECK_ZERO_TIME_STR(From(s, 0, 8), 8)
    /\ From(s, 8, 4) = <<46, 48, 48, 48>>

CHECK_ZERO_MICRO_TIME_STR(s, s_l) ==
    /\ s_l = 15
    /\ CHECK_ZERO_TIME_STR(From(s, 0, 8), 8)
    /\ From(s, 8, 7) = <<46, 48, 48, 48, 48, 48, 48>>

CHECK_ZERO_DATETIME_STR(s, s_l) ==
    /\ s_l = 19
    /\ CHECK_ZERO_DATE_STR(From(s, 0, 10), 10)
    /\ IsSeparator(At(s, 10))
    /\ CHECK_ZERO_TIME_STR(From(s, 11, 8), 8)

CHECK_ZERO_MILLI_DATETIME_STR(s, s_l) ==
    /\ s_l = 23
    /\ CHECK_ZERO_DATE_STR(From(s, 0, 10), 10)
    /\ IsSeparator(At(s, 10))
    /\ CHECK_ZERO_MILLI_TIME_STR(From(s, 11, 12), 12)

CHECK_ZERO_MICRO_DATETIME_STR(s, s_l) ==
    /\ s_l = 26
    /\ CHECK_ZERO_DATE_STR(From(s, 0, 10), 10)
    /\ IsSeparator(At(s, 10))
    /\ CHECK_ZERO_MICRO_TIME_STR(From(s, 11, 15), 15)

CHECK_ANY_ZERO_DATETIME_STR(s, s_l) ==
    \/ s_l = 19 /\ CHECK_ZERO_DATETIME_STR(s, s_l)
    \/ s_l = 23 /\ CHECK_ZERO_MILLI_DATETIME_STR(s, s_l)
    \/ s_l = 26 /\ CHECK_ZERO_MICRO_DATETIME_STR(s, s_l)

CHECK_TIMEDELTA1_STR(s, s_l) ==
    /\ s_l = 7
    /\ IsDigitAt(s, 0)
    /\ At(s, 1) = 58
    /\ InRangeAt(s, 2, 48, 53) /\ IsDigitAt(s, 3)
    /\ At(s, 4) = 58
    /\ InRangeAt(s, 5, 48, 53) /\ IsDigitAt(s, 6)

CHECK_TIMEDELTA2_STR(s, s_l) ==
    s_l = 8 /\ IsDigitAt(s, 0) /\ CHECK_TIMEDELTA1_STR(From(s, 1, 7), 7)

CHECK_TIMEDELTA3_STR(s, s_l) ==
    /\ s_l = 9
    /\ IsDigitAt(s, 0) /\ IsDigitAt(s, 1)
    /\ CHECK_TIMEDELTA1_STR(From(s, 2, 7), 7)

\* CHECK_TIMEDELTAn_MILLI_STR and CHECK_TIMEDELTAn_MICRO_STR, n the number of
\* hour digits: the plain form of 6 + n bytes and the fraction behind it
CHECK_TIMEDELTA_MILLI_STR(n, s, s_l) ==
    /\ s_l = 10 + n
    /\ CASE n = 1 -> CHECK_TIMEDELTA1_STR(From(s, 0, 7), 7)
         [] n = 2 -> CHECK_TIMEDELTA2_STR(From(s, 0, 8), 8)
         [] n = 3 -> CHECK_TIMEDELTA3_STR(From(s, 0, 9), 9)
    /\ CHECK_MILLISECONDS_STR(From(s, 6 + n, 4), 4)

CHECK_TIMEDELTA_MICRO_STR(n, s, s_l) ==
    /\ s_l = 13 + n
    /\ CASE n = 1 -> CHECK_TIMEDELTA1_STR(From(s, 0, 7), 7)
         [] n = 2 -> CHECK_TIMEDELTA2_STR(From(s, 0, 8), 8)
         [] n = 3 -> CHECK_TIMEDELTA3_STR(From(s, 0, 9), 9)
    /\ CHECK_MICROSECONDS_STR(From(s, 6 + n, 7), 7)

_CHECK_ANY_TIMEDELTA_STR(s, s_l) ==
    \/ CHECK_TIMEDELTA1_STR(s, s_l)
    \/ CHECK_TIMEDELTA2_STR(s, s_l)
    \/ CHECK_TIMEDELTA3_STR(s, s_l)
    \/ \E n \in 1..3 : CHECK_TIMEDELTA_MILLI_STR(n, s, s_l)
    \/ \E n \in 1..3 : CHECK_TIMEDELTA_MICRO_STR(n, s, s_l)

\* 0 when the text is no duration, -1 with a leading '-', else 1
CHECK_ANY_TIMEDELTA_STR(s, s_l) ==
    IF s_l > 0 /\ At(s, 0) = 45
    THEN (IF _CHECK_ANY_TIMEDELTA_STR(Tail(s), s_l - 1) THEN 0 - 1 ELSE 0)
    ELSE (IF _CHECK_ANY_TIMEDELTA_STR(s, s_l) THEN 1 ELSE 0)

IS_TIMEDELTA1(s_l) == s_l \in {7, 11, 14}
IS_TIMEDELTA2(s_l) == s_l \in {8, 12, 15}
IS_TIMEDELTA3(s_l) == s_l \in {9, 13, 16}
IS_TIMEDELTA_MILLI(s_l) == s_l \in {11, 12, 13}
IS_TIMEDELTA_MICRO(s_l) == s_l \in {14, 15, 16}


\* the objects of the datetime module; the fields are in s
PyDate(y, m, d) == [t |-> "date", i |-> 0, s |-> <<y, m, d>>]
PyDateTime(y, m, d, hh, mm, ss, us) ==
    [t |-> "datetime", i |-> 0, s |-> <<y, m, d, hh, mm, ss, us>>]
PyDelta(days, seconds, us) == [t |-> "timedelta", i |-> 0, s |-> <<days, seconds, us>>]
\* an object of the caller's: the substitute for invalid values, a converter
PyObj(name) == [t |-> name, i |-> 0, s |-> <<>>]

is_leap(y) == y % 4 = 0 /\ (y % 100 # 0 \/ y % 400 = 0)
days_in_month(y, m) ==
    IF m = 2 THEN (IF is_leap(y) THEN 29 ELSE 28)
    ELSE IF m \in {4, 6, 9, 11} THEN 30 ELSE 31

\* PyDate_FromDate: the date, or NULL with ValueError set
PyDate_FromDate(y, m, d) ==
    IF y >= 1 /\ y <= 9999 /\ m >= 1 /\ m <= 12 /\ d >= 1 /\ d <= days_in_month(y, m)
    THEN [ok |-> TRUE, item |-> PyDate(y, m, d), exc |-> "none"]
    ELSE [ok |-> FALSE, item |-> PyNone, exc |-> "ValueError"]

PyDateTime_FromDateAndTime(y, m, d, hh, mm, ss, us) ==
    IF /\ PyDate_FromDate(y, m, d).ok
       /\ hh >= 0 /\ hh <= 23 /\ mm >= 0 /\ mm <= 59 /\ ss >= 0 /\ ss <= 59
       /\ us >= 0 /\ us <= 999999
    THEN [ok |-> TRUE, item |-> PyDateTime(y, m, d, hh, mm, ss, us), exc |-> "none"]
    ELSE [ok |-> FALSE, item |-> PyNone, exc |-> "ValueError"]

\* PyDelta_FromDSU(0, seconds, us): the timedelta normalised to
\* 0 <= microseconds < 10^6 and 0 <= seconds < 86400
PyDelta_FromDSU(seconds, us) ==
    [ok |-> TRUE,
     item |-> PyDelta((seconds + (us \div 1000000)) \div 86400,
                      (seconds + (us \div 1000000)) % 86400,
                      us % 1000000),
     exc |-> "none"]

\* PyUnicode_Decode(orig_out, orig_out_l, "ascii", "strict")
ascii_item(orig_out) ==
    IF \E k \in DOMAIN orig_out : orig_out[k] >= 128
    THEN [ok |-> FALSE, item |-> PyNone, exc |-> "UnicodeDecodeError"]
    ELSE [ok |-> TRUE, item |-> PyStr(orig_out), exc |-> "none"]

\* the cell failed its check: py_invalid_values[i] when it is set, else the text
invalid_item(py_invalid_value, orig_out) ==
    IF py_invalid_value # PyNULL
    THEN [ok |-> TRUE, item |-> py_invalid_value, exc |-> "none"]
    ELSE ascii_item(orig_out)

\* the constructor failed: the error is cleared and the text is the item
cleared_item(r, orig_out) == IF r.ok THEN r ELSE ascii_item(orig_out)

\* case MYSQL_TYPE_DATETIME, MYSQL_TYPE_TIMESTAMP
datetime_microsecond(out, out_l) ==
    IF IS_DATETIME_MICRO(out_l) THEN CHR2INT6(From(out, 20, 6))
    ELSE IF IS_DATETIME_MILLI(out_l) THEN CHR2INT3(From(out, 20, 3)) * 1000
    ELSE 0

datetime_cell(out, py_invalid_value) ==
    IF CHECK_ANY_ZERO_DATETIME_STR(out, Len(out))
    THEN [ok |-> TRUE, item |-> PyNone, exc |-> "none"]
    ELSE IF ~CHECK_ANY_DATETIME_STR(out, Len(out))
    THEN invalid_item(py_invalid_value, out)
    ELSE cleared_item(
             PyDateTime_FromDateAndTime(
                 CHR2INT4(From(out, 0, 4)), CHR2INT2(From(out, 5, 2)),
                 CHR2INT2(From(out, 8, 2)), CHR2INT2(From(out, 11, 2)),
                 CHR2INT2(From(out, 14, 2)), CHR2INT2(From(out, 17, 2)),
                 datetime_microsecond(out, Len(out))),
             out)

\* case MYSQL_TYPE_NEWDATE, MYSQL_TYPE_DATE
date_cell(out, py_invalid_value) ==
    IF CHECK_ZERO_DATE_STR(out, Len(out))
    THEN [ok |-> TRUE, item |-> PyNone, exc |-> "none"]
    ELSE IF ~CHECK_DATE_STR(out, Len(out))
    THEN invalid_item(py_invalid_value, out)
    ELSE cleared_item(PyDate_FromDate(CHR2INT4(From(out, 0, 4)),
                                      CHR2INT2(From(out, 5, 2)),
                                      CHR2INT2(From(out, 8, 2))),
                      out)

\* case MYSQL_TYPE_TIME, for a text that passed the check: out and out_l are
\* behind the sign, n is the number of hour digits the length stands for.
\* CHR2INT1 reads the byte behind the hour digit.
timedelta_hour(out, n) ==
    CASE n = 1 -> CHR2INT1(From(out, 0, 2))
      [] n = 2 -> CHR2INT2(From(out, 0, 2))
      [] n = 3 -> CHR2INT3(From(out, 0, 3))

timedelta_microsecond(out, out_l, n) ==
    IF IS_TIMEDELTA_MICRO(out_l) THEN CHR2INT6(From(out, 7 + n, 6))
    ELSE IF IS_TIMEDELTA_MILLI(out_l) THEN CHR2INT3(From(out, 7 + n, 3)) * 1000
    ELSE 0

timedelta_digits(out_l) ==
    IF IS_TIMEDELTA1(out_l) THEN 1 ELSE IF IS_TIMEDELTA2(out_l) THEN 2 ELSE 3

timedelta_value(sign, out, out_l, n) ==
    PyDelta_FromDSU(sign * timedelta_hour(out, n) * 60 * 60
                    + sign * CHR2INT2(From(out, n + 1, 2)) * 60
                    + sign * CHR2INT2(From(out, n + 4, 2)),
                    sign * timedelta_microsecond(out, out_l, n))

time_signed(sign, out, orig_out, py_invalid_value) ==
    IF sign = 0 THEN invalid_item(py_invalid_value, orig_out)
    ELSE cleared_item(timedelta_value(sign, out, Len(out), timedelta_digits(Len(out))),
                      orig_out)

time_cell(out, py_invalid_value) ==
    time_signed(CHECK_ANY_TIMEDELTA_STR(out, Len(out)),
                IF CHECK_ANY_TIMEDELTA_STR(out, Len(out)) < 0 THEN Tail(out) ELSE out,
                out, py_invalid_value)

DateTypes == {MYSQL_TYPE_DATE, MYSQL_TYPE_NEWDATE}
DateTimeTypes == {MYSQL_TYPE_DATETIME, MYSQL_TYPE_TIMESTAMP}

\* the default processing of a non-NULL cell of a date or time column
temporal_cell(type_code, out, py_invalid_value) ==
    CASE type_code \in DateTimeTypes -> datetime_cell(out, py_invalid_value)
      [] type_code \in DateTypes -> date_cell(out, py_invalid_value)
      [] type_code = MYSQL_TYPE_TIME -> time_cell(out, py_invalid_value)


\* ----------------------------------- a date or time cell, taken on its own
\* self->options of a state object before read_options has run: the object
\* was zeroed when it was allocated
ZeroedOptions == [has_invalid_values |-> FALSE, invalid_values |-> {}]

\* read_options: the dict under "invalid_values", here the set of its keys
read_options(options, py_options) ==
    IF py_options.has_invalid_values
    THEN [options EXCEPT !.has_invalid_values = TRUE,
                         !.invalid_values = py_options.invalid_values]
    ELSE options

\* py_invalid_value in State_init's loop over the fields:
\* (self->options.invalid_values) ? PyDict_GetItem(..., py_field_type) : NULL
field_invalid_value(options, type_code) ==
    IF options.has_invalid_values /\ type_code \in options.invalid_values
    THEN PyObj("invalid_value")
    ELSE PyNULL

\* the py_invalid_values[i] State_init stores: NULL, or the column's converter
stored_invalid_value(py_invalid_value, py_converter) ==
    IF py_invalid_value = PyNULL \/ py_invalid_value = PyNone THEN PyNULL
    ELSE py_converter

\* State_init: the loop over the fields runs on the options as they are when
\* it is reached, and read_options runs behind it
State_init_invalid_value(options, type_code, py_converter) ==
    stored_invalid_value(field_invalid_value(options, type_code), py_converter)

\* the decimal digits of n in w places
Digits(n, w) ==
    [k \in 1..w |-> 48 + (CASE k = w -> n % 10
                            [] k = w - 1 -> (n \div 10) % 10
                            [] k = w - 2 -> (n \div 100) % 10
                            [] k = w - 3 -> (n \div 1000) % 10
                            [] k = w - 4 -> (n \div 10000) % 10
                            [] k = w - 5 -> (n \div 100000) % 10)]
DateText(p) == Digits(p.y, 4) \o <<45>> \o Digits(p.m, 2) \o <<45>> \o Digits(p.d, 2)
ClockText(p) ==
    (IF p.neg THEN <<45>> ELSE <<>>)
    \o Digits(p.h, p.hw) \o <<58>> \o Digits(p.mi, 2) \o <<58>> \o Digits(p.sec, 2)
    \o (IF p.fw = 0 THEN <<>> ELSE <<46>> \o Digits(p.f, p.fw))
CellText(type_code, p) ==
    IF type_code \in DateTypes THEN DateText(p)
    ELSE IF type_code \in DateTimeTypes THEN DateText(p) \o <<p.sep>> \o ClockText(p)
    ELSE ClockText(p)

\* the texts the server sends, and some it would not, given by their fields
SampleYears == {0, 1, 2023, 2024, 9999}
SampleMonths == {0, 1, 2, 12, 13}
SampleDays == {0, 1, 28, 29, 30, 31, 32}
SampleDates ==
    { <<0, 0, 0>>, <<2024, 2, 29>>, <<2024, 2, 30>>, <<2023, 2, 29>>,
      <<2024, 12, 31>>, <<2024, 13, 1>> }
SampleSeparators == {32, 84, 95}
SampleClocks == { <<0, 0, 0>>, <<23, 59, 59>>, <<24, 0, 0>>, <<10, 7, 9>> }
SampleHours ==
    { <<1, 0>>, <<1, 5>>, <<1, 9>>, <<2, 0>>, <<2, 10>>, <<2, 23>>, <<2, 24>>,
      <<2, 99>>, <<3, 0>>, <<3, 10>>, <<3, 100>>, <<3, 838>>, <<3, 999>> }
SampleMinutes == {0, 59, 60}
SampleSeconds == {0, 7, 59}
SampleFractions ==
    { <<0, 0>>, <<2, 12>>, <<3, 0>>, <<3, 123>>, <<6, 0>>, <<6, 1>>, <<6, 123456>> }

NoParts == [neg |-> FALSE, y |-> 0, m |-> 0, d |-> 0, sep |-> 32,
            hw |-> 2, h |-> 0, mi |-> 0, sec |-> 0, fw |-> 0, f |-> 0]
DateParts ==
    { [NoParts EXCEPT !.y = y, !.m = m, !.d = d] :
        y \in SampleYears, m \in SampleMonths, d \in SampleDays }
DateTimeParts ==
    { [NoParts EXCEPT !.y = ymd[1], !.m = ymd[2], !.d = ymd[3], !.sep = sep,
                      !.h = c[1], !.mi = c[2], !.sec = c[3],
                      !.fw = fr[1], !.f = fr[2]] :
        ymd \in SampleDates, sep \in SampleSeparators, c \in SampleClocks,
        fr \in SampleFractions }
TimeParts ==
    UNION { { [NoParts EXCEPT !.neg = neg, !.hw = hh[1], !.h = hh[2], !.mi = mi,
                              !.sec = sec, !.fw = fr[1], !.f = fr[2]] :
                neg \in BOOLEAN, hh \in SampleHours, fr \in SampleFractions } :
            mi \in SampleMinutes, sec \in SampleSeconds }
Parts(type_code) ==
    IF type_code \in DateTypes THEN DateParts
    ELSE IF type_code \in DateTimeTypes THEN DateTimeParts ELSE TimeParts

TemporalTypes == DateTypes \cup DateTimeTypes \cup {MYSQL_TYPE_TIME}

\* a column of a date or time type, the cell the server sent for it, and the
\* options of the query: invalid_values absent, or a dict with an entry for
\* every date and time type; the column's converter is None or the default
\* converter of its type
InitTemporal ==
    /\ AtRest
    /\ \E type_code \in TemporalTypes : \E p \in Parts(type_code) :
         \E configured \in BOOLEAN :
           \E py_converter \in {PyNone, PyObj("default_converter")} :
             unit = [op |-> "temporal", stage |-> "query",
                     type_code |-> type_code, parts |-> p,
                     text |-> CellText(type_code, p),
                     py_options |-> [has_invalid_values |-> configured,
                                     invalid_values |->
                                        IF configured THEN TemporalTypes ELSE {}],
                     py_converter |-> py_converter,
                     options |-> ZeroedOptions,
                     py_invalid_value |-> PyNULL,
                     out |-> [ok |-> TRUE, item |-> PyNULL, exc |-> "none"]]

\* State_init for the column
InitColumnState ==
    /\ unit.op = "temporal"
    /\ unit.stage = "query"
    /\ unit' = [unit EXCEPT
                  !.stage = "state",
                  !.py_invalid_value =
                      State_init_invalid_value(unit.options, unit.type_code,
                                               unit.py_converter),
                  !.options = read_options(unit.options, unit.py_options)]
    /\ Resting

\* read_row_from_packet's default processing of the cell
DecodeTemporal ==
    /\ unit.op = "temporal"
    /\ unit.stage = "state"
    /\ unit' = [unit EXCEPT
                  !.stage = "decoded",
                  !.out = temporal_cell(unit.type_code, unit.text,
                                        unit.py_invalid_value)]
    /\ Resting

NextTemporal == InitColumnState \/ DecodeTemporal

SpecTemporal == InitTemporal /\ [][NextTemporal]_vars


\* what the fields of the cell's text say, independently of the decoder
Decoded == unit.op = "temporal" /\ unit.stage = "decoded"
IsDateCell == unit.type_code \in DateTypes
IsDateTimeCell == unit.type_code \in DateTimeTypes
IsTimeCell == unit.type_code = MYSQL_TYPE_TIME
CalendarDate(p) ==
    p.y >= 1 /\ p.m >= 1 /\ p.m <= 12 /\ p.d >= 1 /\ p.d <= days_in_month(p.y, p.m)
FractionForm(p) == p.fw \in {0, 3, 6}
ClockOfDay(p) ==
    ~p.neg /\ p.hw = 2 /\ p.h <= 23 /\ p.mi <= 59 /\ p.sec <= 59 /\ FractionForm(p)
DurationForm(p) == p.mi <= 59 /\ p.sec <= 59 /\ FractionForm(p)
ZeroDate(p) == p.y = 0 /\ p.m = 0 /\ p.d = 0
ZeroClock(p) ==
    ~p.neg /\ p.hw = 2 /\ p.h = 0 /\ p.mi = 0 /\ p.sec = 0 /\ p.f = 0 /\ FractionForm(p)
\* the text is a date, a date and time of day, or a duration
ValidText ==
    \/ IsDateCell /\ CalendarDate(unit.parts)
    \/ IsDateTimeCell /\ CalendarDate(unit.parts) /\ unit.parts.sep \in {32, 84}
                      /\ ClockOfDay(unit.parts)
    \/ IsTimeCell /\ DurationForm(unit.parts)
\* the text is a zero-valued form
ZeroText ==
    \/ IsDateCell /\ ZeroDate(unit.parts)
    \/ IsDateTimeCell /\ ZeroDate(unit.parts) /\ unit.parts.sep \in {32, 84}
                      /\ ZeroClock(unit.parts)
    \/ IsTimeCell /\ ZeroClock(unit.parts)
Configured == unit.py_options.has_invalid_values
RawText == [ok |-> TRUE, item |-> PyStr(unit.text), exc |-> "none"]

\* C21: a DATE, DATETIME, TIMESTAMP or TIME cell whose text fails validation
\* decodes, without an error, to the invalid_values entry of its type code
\* when the options hold one, and to the text itself otherwise.
C21_AsStated ==
    (Decoded /\ ~ValidText /\ ~ZeroText) =>
        unit.out = (IF Configured
                    THEN [ok |-> TRUE, item |-> PyObj("invalid_value"), exc |-> "none"]
                    ELSE RawText)

\* whatever the options hold, such a cell decodes to its text
C21_AlwaysText == (Decoded /\ ~ValidText /\ ~ZeroText) => unit.out = RawText

\* no column ever has a substitute stored
C21_NeverStored == unit.op = "temporal" => unit.py_invalid_value = PyNULL

\* the date 2024-02-30 in a DATE column, with invalid_values holding an
\* entry for DATE: no substitute was stored and the cell is its text
C21_Witness ==
    /\ Decoded
    /\ unit.type_code = MYSQL_TYPE_DATE
    /\ unit.text = <<50, 48, 50, 52, 45, 48, 50, 45, 51, 48>>
    /\ Configured /\ MYSQL_TYPE_DATE \in unit.options.invalid_values
    /\ unit.py_invalid_value = PyNULL
    /\ unit.out = RawText


\* ---- C22
\* the call ended because read_row_from_packet failed on a row packet
DecodeFailed == Called /\ call.end = "error" /\ call.exc = "UnicodeDecodeError"
RowsBefore == IF call.had_state THEN call.n_rows_before ELSE 0

\* C22: n_rows and n_rows_in_batch are incremented only after the row has
\* been decoded and appended: when decoding a row packet fails both keep the
\* values they had, so n_rows, and the affected_rows derived from it, count
\* the appended rows only.
C22_AsStated ==
    (DecodeFailed /\ res.has_state) =>
        /\ state.n_rows = RowsBefore + call.row_idx
        /\ state.n_rows_in_batch = (IF Reset THEN 0 ELSE Len(call.rows_before))
                                   + call.row_idx
        /\ ~res.options_unbuffered => res.affected_rows = state.n_rows

\* what the code does: the packet whose row failed to decode is counted
C22_CountedBeforeDecoding ==
    (DecodeFailed /\ res.has_state) => state.n_rows = RowsBefore + call.row_idx + 1

\* when a packet cannot be read at all, the counters keep their values
C22_ReadFailure ==
    (Called /\ call.end = "error" /\ call.exc = "OperationalError" /\ res.has_state)
        => state.n_rows = RowsBefore + call.row_idx

\* the first packet of a buffered result is a row whose text is not UTF-8:
\* the call raised, no row was appended, and n_rows, n_rows_in_batch and
\* affected_rows are 1
C22_Witness ==
    /\ DecodeFailed /\ res.has_state
    /\ call.n = 1 /\ ~res.options_unbuffered
    /\ hist.framed = <<RowBadText>>
    /\ call.row_idx = 0 /\ py_rows = <<>>
    /\ state.n_rows = 1 /\ state.n_rows_in_batch = 1
    /\ res.affected_rows = 1


\* ------------------------------------- read_bytes on a byte source that fails
MaxReads == 3     \* outcomes the byte source is given in advance

\* What one call of the source's read does: it delivers the bytes asked for
\* ("data") or fewer ("short"), or raises: InterruptedError with errno 4
\* ("EINTR"), another OSError ("ECONNRESET"), an OSError of a class that has
\* errno = 4 as a class attribute ("ClassEINTR"), or an exception that is no
\* OSError ("KeyboardInterrupt").
ReadOutcomes == {"data", "short", "EINTR", "ECONNRESET", "ClassEINTR",
                 "KeyboardInterrupt"}
Raises(o) == o \notin {"data", "short"}
MatchesOSError(exc) == exc \in {"EINTR", "ECONNRESET", "ClassEINTR"}

\* PyLong_AsUnsignedLongLong(PyObject_GetAttr(py_exc, "errno")), py_exc being
\* what PyErr_Occurred returns, the pending exception's type: for the
\* built-in classes the attribute of the type is a descriptor, no integer,
\* and the conversion gives (unsigned long long)-1
errno_of_type(exc) == IF exc = "ClassEINTR" THEN 4 ELSE HUGE

\* the outcome of the source's next read; it delivers once the list is used up
next_outcome(script) == IF script = <<>> THEN "data" ELSE script[1]

\* PyObject_CallFunctionObjArgs(py_read, ...): the pending exception after
\* the call. When read is called while an exception is pending (the one the
\* loop continued on) and delivers, either the callee has cleared the
\* exception on its way (callee_clears) or its result is dropped and the
\* call fails with SystemError, as it does for a buffered reader.
exc_after_read(pending, o, callee_clears) ==
    IF Raises(o) THEN o
    ELSE IF pending # "none" /\ ~callee_clears THEN "SystemError" ELSE "none"

read_logged(w, num_bytes, o, callee_clears) ==
    [w EXCEPT !.log = Append(@, Ev("read", o, num_bytes, 0)),
              !.exc = exc_after_read(w.exc, o, callee_clears)]

RECURSIVE read_bytes_loop(_, _, _, _)
\* the body of while (1) once read has returned: w holds the pending
\* exception, o is what the source did, script what it will do next
read_bytes_round(w, o, script, num_bytes, callee_clears) ==
    IF w.exc # "none"
    THEN IF MatchesOSError(w.exc)
         THEN IF errno_of_type(w.exc) = 4
              THEN read_bytes_loop(w, script, num_bytes, callee_clears)
              ELSE [ret |-> "NULL", w |-> raise_exception(force_close(w),
                                                          "OperationalError")]
         ELSE [ret |-> "NULL", w |-> force_close(w)]
    ELSE IF o = "short"
    THEN [ret |-> "NULL", w |-> short_read_error(w)]
    ELSE [ret |-> "data", w |-> w]

\* while (1) { py_data = read(num_bytes); ... }
read_bytes_loop(w, script, num_bytes, callee_clears) ==
    read_bytes_round(read_logged(w, num_bytes, next_outcome(script), callee_clears),
                     next_outcome(script),
                     IF script = <<>> THEN <<>> ELSE Tail(script), num_bytes,
                     callee_clears)

\* read_bytes with a byte source that follows script; the read timeout is
\* set on the socket first when one is configured
read_bytes_source(w, has_timeout, settimeout_raises, script, num_bytes, callee_clears) ==
    IF has_timeout /\ settimeout_raises
    THEN [ret |-> "NULL",
          w |-> [w EXCEPT !.log = Append(@, Ev("settimeout", "OSError", 0, 0)),
                          !.exc = "OSError"]]
    ELSE IF has_timeout
    THEN read_bytes_loop([w EXCEPT !.log = Append(@, Ev("settimeout", "", 0, 0))],
                         script, num_bytes, callee_clears)
    ELSE read_bytes_loop(w, script, num_bytes, callee_clears)

InitReadBytes ==
    /\ AtRest
    /\ \E n \in 1..MaxReads : \E script \in [1..n -> ReadOutcomes] :
         \E has_timeout \in BOOLEAN, settimeout_raises \in BOOLEAN,
            callee_clears \in BOOLEAN :
           /\ settimeout_raises => has_timeout
           /\ callee_clears => "ClassEINTR" \in Range(script)
           /\ unit = [op |-> "read_bytes", stage |-> "call",
                      has_timeout |-> has_timeout,
                      settimeout_raises |-> settimeout_raises,
                      script |-> script, callee_clears |-> callee_clears,
                      w |-> [conn |-> [_sock |-> "sock", _rfile |-> "rfile",
                                       sock_closed |-> FALSE],
                             exc |-> "none", log |-> <<>>],
                      ret |-> "none"]

\* one call of read_bytes for the four bytes of a packet header
ReadBytes ==
    /\ unit.op = "read_bytes"
    /\ unit.stage = "call"
    /\ unit' = [unit EXCEPT
                  !.stage = "returned",
                  !.w = read_bytes_source(unit.w, unit.has_timeout,
                                          unit.settimeout_raises, unit.script, 4,
                                          unit.callee_clears).w,
                  !.ret = read_bytes_source(unit.w, unit.has_timeout,
                                            unit.settimeout_raises, unit.script, 4,
                                            unit.callee_clears).ret]
    /\ Resting

NextReadBytes == ReadBytes

SpecReadBytes == InitReadBytes /\ [][NextReadBytes]_vars


Returned == unit.op = "read_bytes" /\ unit.stage = "returned"
ReadCalls == {i \in DOMAIN unit.w.log : unit.w.log[i].ev = "read"}
TimeoutBeforeEveryRead ==
    \A i \in ReadCalls : i > 1 /\ unit.w.log[i - 1].ev = "settimeout"
\* every failure the source was given has the error code EINTR: it delivers
\* in the end
OnlyInterrupted == Range(unit.script) \subseteq {"EINTR", "ClassEINTR", "data"}
Delivered ==
    /\ unit.ret = "data"
    /\ unit.w.exc = "none"
    /\ ~unit.w.conn.sock_closed

\* C23: a configured read timeout is applied to the byte source immediately
\* before every call of its read, the reads re-issued after an EINTR failure
\* included; and an EINTR failure is retried: it neither closes the
\* connection nor reaches the caller.
C23_AsStated ==
    Returned =>
        /\ unit.has_timeout => TimeoutBeforeEveryRead
        /\ OnlyInterrupted => Delivered

\* the timeout is applied once, before the first read only
C23_TimeoutOnce ==
    (Returned /\ unit.has_timeout /\ ~unit.settimeout_raises) =>
        /\ unit.w.log[1].ev = "settimeout"
        /\ \A i \in DOMAIN unit.w.log : unit.w.log[i].ev = "settimeout" => i = 1

\* a read that fails with InterruptedError is never re-issued
C23_InterruptedCloses ==
    (Returned /\ ~unit.settimeout_raises /\ unit.script[1] = "EINTR") =>
        /\ Cardinality(ReadCalls) = 1
        /\ unit.ret = "NULL" /\ unit.w.exc = "OperationalError"
        /\ unit.w.conn.sock_closed

\* with a read timeout configured the first read fails with
\* InterruptedError (errno 4) and the source would deliver next: the
\* connection was closed and OperationalError raised after the one read
C23_Witness ==
    /\ Returned
    /\ unit.has_timeout /\ unit.script = <<"EINTR", "data">>
    /\ unit.w.log = << Ev("settimeout", "", 0, 0), Ev("read", "EINTR", 4, 0),
                       Ev("force_close", "", 0, 0),
                       Ev("raise", "OperationalError", 0, 0) >>
    /\ unit.ret = "NULL" /\ unit.w.exc = "OperationalError"
    /\ unit.w.conn.sock_closed

\* an error whose class carries errno 4 is retried: the second read follows
\* the first without the timeout being applied again
C23_WitnessRetry ==
    /\ Returned
    /\ unit.has_timeout /\ unit.script = <<"ClassEINTR", "data">>
    /\ unit.callee_clears
    /\ unit.w.log = << Ev("settimeout", "", 0, 0), Ev("read", "ClassEINTR", 4, 0),
                       Ev("read", "data", 4, 0) >>
    /\ Delivered


\* -------------------------------------- load_rowdat_1 on cells marked NULL
\* A first cell as a producer may write it: its is_null flag, and its
\* payload, which is there whether or not the flag is set. For the integer
\* types n is the value, for the string types the length of a text of a's.
NullCellTypes == {MYSQL_TYPE_TINY, MYSQL_TYPE_LONG, 0 - MYSQL_TYPE_LONGLONG,
                  MYSQL_TYPE_VARCHAR, 0 - MYSQL_TYPE_VARCHAR}
PayloadSizes == {0, 1, 2}
CellBytes(ctype, is_null, n) ==
    << IF is_null THEN 1 ELSE 0 >>
    \o (IF int_width(ctype) > 0 THEN Narrow(Wide(n), int_width(ctype))
        ELSE Narrow(Wide(n), 8) \o [k \in 1..n |-> 97])
\* what the cell stands for
CellItem(ctype, is_null, n) ==
    IF is_null THEN PyNone
    ELSE IF int_width(ctype) > 0 THEN PyLong(Wide(n))
    ELSE IF ctype < 0 THEN PyBytes([k \in 1..n |-> 97])
    ELSE PyStr([k \in 1..n |-> 97])
\* row r: the id 42 + r, the first cell, and a TINY cell holding 9
RowBytes(ctype, r, c) ==
    Narrow(Wide(42 + r), 8) \o CellBytes(ctype, c.is_null, c.n)
    \o CellBytes(MYSQL_TYPE_TINY, FALSE, 9)
RECURSIVE RowsBytes(_, _, _)
RowsBytes(ctype, cells, r) ==
    IF r > Len(cells) THEN <<>>
    ELSE RowBytes(ctype, r, cells[r]) \o RowsBytes(ctype, cells, r + 1)

\* A string column is given one row only: a second row read from the wrong
\* offset would have the decoder take some of its bytes for a length of
\* millions of bytes.
InitNullCells ==
    /\ AtRest
    /\ \E ctype \in NullCellTypes :
       \E m \in 1..(IF int_width(ctype) > 0 THEN MaxRows ELSE 1) :
         \E cells \in [1..m -> [is_null : BOOLEAN, n : PayloadSizes]] :
           unit = [op |-> "row", stage |-> "dumped",
                   colspec |-> <<ctype, MYSQL_TYPE_TINY>>,
                   row_ids |-> [r \in 1..m |-> PyLong(Wide(42 + r))],
                   rows |-> [r \in 1..m |->
                               << CellItem(ctype, cells[r].is_null, cells[r].n),
                                  PyLong(Wide(9)) >>],
                   out |-> [ret |-> "bytes", buf |-> RowsBytes(ctype, cells, 1),
                            row_ids |-> <<>>, rows |-> <<>>, pos |-> 0,
                            exc |-> "none"],
                   data |-> PyNone, beyond |-> 0, back |-> NoResult]

NextNullCells == LoadRow

SpecNullCells == InitNullCells /\ [][NextNullCells]_vars

\* the whole buffer was handed to load_rowdat_1
LoadedWhole ==
    unit.op = "row" /\ unit.stage = "loaded" /\ unit.data.s = unit.out.buf
HasNullCell == \E r \in DOMAIN unit.rows : unit.rows[r][1] = PyNone
ReadAsWritten ==
    /\ unit.back.ret = "tuple"
    /\ unit.back.row_ids = unit.row_ids
    /\ unit.back.rows = unit.rows

\* C24: a cell with is_null = 1 yields None and the cursor advances over the
\* cell's whole payload, the fixed width of a numeric type and the 8-byte
\* length plus that many bytes of a string or binary type, so the next cell
\* and the next row are read from their offsets.
C24_AsStated == (LoadedWhole /\ HasNullCell) => ReadAsWritten

\* it holds for the integer types, and for a string whose length field is 0
C24_FixedWidth ==
    (/\ LoadedWhole /\ HasNullCell
     /\ \/ int_width(unit.colspec[1]) > 0
        \/ Len(unit.out.buf) = 8 + 9 + 2) => ReadAsWritten

\* one row (VARCHAR, TINY) whose first cell is NULL with the length 1 and
\* the byte 'a' behind it: the 'a' is taken for the is_null flag of the
\* second cell, the flag for its value, and the value 9 for the first byte
\* of a second row
C24_Witness ==
    /\ LoadedWhole
    /\ unit.colspec = <<MYSQL_TYPE_VARCHAR, MYSQL_TYPE_TINY>>
    /\ unit.out.buf = <<43, 0, 0, 0, 0, 0, 0, 0,  1, 1, 0, 0, 0, 0, 0, 0, 0, 97,  0, 9>>
    /\ unit.rows = << <<PyNone, PyLong(Wide(9))>> >>
    /\ unit.back.ret = "tuple"
    /\ unit.back.rows[1] = <<PyNone, PyLong(Wide(0))>>
    /\ Len(unit.back.rows) = 2


\* ------------------------------------ rows whose number is not a number
\* Row payloads for the columns (BIGINT, VARCHAR utf8) whose first cell is
\* the text "abc", "12abc" or the empty text; the second cell is "a".
RowAbc == <<3, 97, 98, 99, 1, 97>>
Row12abc == <<5, 49, 50, 97, 98, 99, 1, 97>>
RowEmpty == <<0, 1, 97>>
BadNumberRows == {RowAbc, Row12abc, RowEmpty}

\* one or two rows, some of them with such a cell, and the EOF packet or not
NumberStreams ==
    LET rows == SeqsOfLen(BadNumberRows \cup {RowA}, MaxPackets - 1) \ {<<>>}
    IN  rows \cup {r \o <<EofLast>> : r \in rows}

InitNumbers == \E payloads \in NumberStreams : InitWith(payloads)

SpecNumbers == InitNumbers /\ [][Next]_vars

\* the call read a row packet whose first cell is no number
ReadBadNumber == Called /\ Range(call.framed) \cap BadNumberRows # {}

\* C25: in an integer column without a converter a non-NULL cell whose text
\* is not a valid number is fatal to its row: the conversion error leaves
\* read_rowdata_packet, the packet being the last the call read, and no row
\* is appended for it; the cell is never decoded to a number.
C25_AsStated ==
    ReadBadNumber =>
        /\ call.ret = "NULL" /\ call.exc # "none"
        /\ call.framed[Len(call.framed)] \in BadNumberRows
        /\ call.row_idx = Len(call.framed) - 1

\* what the code does: unless the stream itself fails, the packet's row is
\* appended with what strtoll makes of the text
\* what strtoll makes of the three texts, worked out by hand
NumberRead(payload) == IF payload = Row12abc THEN 12 ELSE 0

C25_DecodedByStrtoll ==
    (ReadBadNumber /\ ~res.options_unbuffered /\ call.n = 1) =>
        \A i \in 1..Len(call.framed) :
            call.framed[i] \in BadNumberRows =>
                /\ i <= call.row_idx /\ i <= Len(py_rows)
                /\ py_rows[i][1] = PyInt(NumberRead(call.framed[i]))

\* the stream is the row ("abc", "a") and the EOF packet: the call returned
\* the row (0, "a")
C25_Witness ==
    /\ Called /\ call.n = 1 /\ wire.tail = "ok"
    /\ call.framed = <<RowAbc, EofLast>>
    /\ call.exc = "none" /\ call.ret = "rows"
    /\ py_rows = << <<PyInt(0), PyStr(<<97>>)>> >>


\* the duration a TIME text stands for, from its fields: whole seconds and
\* microseconds, normalised as a timedelta is (0 <= microseconds < 10^6)
FractionMicros(p) == IF p.fw = 3 THEN p.f * 1000 ELSE IF p.fw = 6 THEN p.f ELSE 0
ClockSeconds(hour, p) == hour * 3600 + p.mi * 60 + p.sec
DurationOf(hour, p) ==
    IF p.neg /\ FractionMicros(p) > 0
    THEN <<0 - ClockSeconds(hour, p) - 1, 1000000 - FractionMicros(p)>>
    ELSE IF p.neg THEN <<0 - ClockSeconds(hour, p), 0>>
    ELSE <<ClockSeconds(hour, p), FractionMicros(p)>>
\* the whole seconds and the microseconds of a timedelta
DeltaValue(item) == <<item.s[1] * 86400 + item.s[2], item.s[3]>>
IsDuration == Decoded /\ IsTimeCell /\ DurationForm(unit.parts)

\* C26: every TIME text of the duration grammar (optional '-', an hour field
\* of 1, 2 or 3 digits, optional fraction of 3 or 6 digits) decodes to the
\* duration sign * (hour * 3600 + minute * 60 + second) seconds plus
\* sign * fraction microseconds, hour being the value of the hour field.
C26_AsStated ==
    IsDuration =>
        /\ unit.out.ok /\ unit.out.item.t = "timedelta"
        /\ DeltaValue(unit.out.item) = DurationOf(unit.parts.h, unit.parts)

\* the same for hour fields of two and three digits only
C26_LongHours ==
    (IsDuration /\ unit.parts.hw \in {2, 3}) =>
        /\ unit.out.ok /\ unit.out.item.t = "timedelta"
        /\ DeltaValue(unit.out.item) = DurationOf(unit.parts.h, unit.parts)

\* an hour field of one digit counts as ten hours, whatever the digit
C26_OneDigitIsTen ==
    (IsDuration /\ unit.parts.hw = 1) =>
        /\ unit.out.ok /\ unit.out.item.t = "timedelta"
        /\ DeltaValue(unit.out.item) = DurationOf(10, unit.parts)

\* the TIME cell "5:00:07" decoded to the duration 10:00:07
C26_Witness ==
    /\ Decoded /\ IsTimeCell
    /\ unit.text = <<53, 58, 48, 48, 58, 48, 55>>
    /\ unit.out = [ok |-> TRUE, item |-> PyDelta(0, 36007, 0), exc |-> "none"]


\* a DATETIME or TIMESTAMP text whose fields are all in range, by the
\* number of digits of its fraction
IsDateTimeText(fw) ==
    /\ Decoded /\ IsDateTimeCell /\ CalendarDate(unit.parts)
    /\ unit.parts.sep \in {32, 84} /\ ClockOfDay(unit.parts) /\ unit.parts.fw = fw
\* the datetime the fields of the text stand for
DateTimeOf(p) ==
    [ok |-> TRUE,
     item |-> PyDateTime(p.y, p.m, p.d, p.h, p.mi, p.sec, FractionMicros(p)),
     exc |-> "none"]

\* C27: a DATETIME or TIMESTAMP cell YYYY-MM-DD, ' ' or 'T', HH:MM:SS and a
\* fraction of three digits, every field in range, decodes to the datetime
\* whose microsecond is the millisecond value * 1000.
C27_AsStated == IsDateTimeText(3) => unit.out = DateTimeOf(unit.parts)

\* the forms of 19 and of 26 characters decode to the datetime with
\* microsecond 0 and with the value of the six digits
C27_OtherLengths ==
    (IsDateTimeText(0) \/ IsDateTimeText(6)) => unit.out = DateTimeOf(unit.parts)

\* the form of 23 characters is treated as a text that failed validation
C27_MilliRejected ==
    IsDateTimeText(3) =>
        unit.out = invalid_item(unit.py_invalid_value, unit.text)

\* the cell "2024-02-29 10:07:09.123" came out as its own text
C27_Witness ==
    /\ Decoded /\ unit.type_code = MYSQL_TYPE_DATETIME
    /\ unit.text = <<50, 48, 50, 52, 45, 48, 50, 45, 50, 57, 32,
                     49, 48, 58, 48, 55, 58, 48, 57, 46, 49, 50, 51>>
    /\ unit.out = RawText


NoneItem == [ok |-> TRUE, item |-> PyNone, exc |-> "none"]

\* C28: a cell whose text is a zero-valued form (0000-00-00 in a DATE
\* column, 00:00:00 with or without an all-zero fraction in a TIME column,
\* the two combined in a DATETIME or TIMESTAMP column) decodes to None.
C28_AsStated == (Decoded /\ ZeroText) => unit.out = NoneItem

\* so it is in the DATE, DATETIME and TIMESTAMP columns
C28_ZeroDates == (Decoded /\ ZeroText /\ ~IsTimeCell) => unit.out = NoneItem

\* in a TIME column the zero forms are durations like any other
C28_ZeroDuration ==
    (Decoded /\ ZeroText /\ IsTimeCell) =>
        unit.out = [ok |-> TRUE, item |-> PyDelta(0, 0, 0), exc |-> "none"]

\* the TIME cell "00:00:00" decoded to the duration of no length
C28_Witness ==
    /\ Decoded /\ IsTimeCell
    /\ unit.text = <<48, 48, 58, 48, 48, 58, 48, 48>>
    /\ unit.out.item = PyDelta(0, 0, 0)


\* ------------------------------- the read cursor of the two RowDat loaders
\* A position is the index of the next byte to read, 1 for the first byte of
\* the buffer and Len(data) + 1 for `end`.
MaxCount == 8      \* n_rows, a uint64_t, is counted modulo MaxCount

\* the int64_t in the eight bytes b; a value beyond sixteen bits, which no
\* buffer of the model can hold, stands as HUGE or -HUGE
i64_value(b) ==
    IF \A k \in 3..8 : b[k] = 0 THEN b[1] + 256 * b[2]
    ELSE IF \A k \in 3..8 : b[k] = 255 THEN b[1] + 256 * b[2] - 65536
    ELSE IF b[8] >= 128 THEN 0 - HUGE ELSE HUGE

\* CHECKSIZE(x) finds that (data + x) > end
CHECKSIZE(data, pos, x) == x = HUGE \/ pos + x > Len(data) + 1

ScanError(pos, exc, cells) == [kind |-> "error", pos |-> pos, exc |-> exc, cells |-> cells]
ScanOk(pos, cells) == [kind |-> "ok", pos |-> pos, exc |-> "none", cells |-> cells]

\* the first pass of load_rowdat_1_numpy at the null slot of a column: the
\* position behind the cell.  A length is added to the cursor as it is read,
\* whether or not the null slot is set; a negative one passes CHECKSIZE.
\* A type with no case in the switch takes the null slot only.
sizing_cell(ctype, data, pos, cells) ==
    IF CHECKSIZE(data, pos, 1) THEN ScanError(pos, "ValueError", cells)
    ELSE IF ctype \in ReservedTypes THEN ScanError(pos + 1, "TypeError", cells)
    ELSE IF int_width(ctype) > 0
    THEN IF CHECKSIZE(data, pos + 1, int_width(ctype))
         THEN ScanError(pos + 1, "ValueError", cells)
         ELSE ScanOk(pos + 1 + int_width(ctype),
                     Append(cells, 1 + int_width(ctype)))
    ELSE IF Abs(ctype) \in StringTypes
    THEN IF CHECKSIZE(data, pos + 1, 8) THEN ScanError(pos + 1, "ValueError", cells)
         ELSE IF CHECKSIZE(data, pos + 9, i64_value(SubSeq(data, pos + 1, pos + 8)))
         THEN ScanError(pos + 9, "ValueError", cells)
         ELSE ScanOk(pos + 9 + i64_value(SubSeq(data, pos + 1, pos + 8)),
                     Append(cells, 9 + i64_value(SubSeq(data, pos + 1, pos + 8))))
    ELSE ScanOk(pos + 1, Append(cells, 1))

RECURSIVE sizing_cells(_, _, _, _)
\* the loop over the columns: c is what the cells before column i gave.  A
\* cursor a negative length has put before the buffer is "outside".
sizing_cells(ctypes, data, i, c) ==
    IF c.kind # "ok" THEN c
    ELSE IF c.pos < 1 THEN [c EXCEPT !.kind = "outside"]
    ELSE IF i > Len(ctypes) THEN c
    ELSE sizing_cells(ctypes, data, i + 1,
                      sizing_cell(ctypes[i], data, c.pos, c.cells))

\* one turn of the first pass's while (end > data)
sizing_row(ctypes, data, pos) ==
    IF CHECKSIZE(data, pos, 8) THEN ScanError(pos, "ValueError", <<>>)
    ELSE sizing_cells(ctypes, data, 1, ScanOk(pos + 8, <<>>))

\* the memory a loader reads at data[1..]: the buffer, its NUL, and what the
\* heap holds behind it, as far as a row reaches
heap(data, beyond) == data \o <<0>> \o [k \in 1..24 |-> beyond]
\* the int64_t read at position p
i64_at(data, p, beyond) == i64_value(SubSeq(heap(data, beyond), p, p + 7))
\* the bytes of a text of n bytes at data[p..] that decide whether it is
\* UTF-8: behind the buffer and its NUL every byte is the same
text_head(data, p, n, beyond) ==
    SubSeq(heap(data, beyond), Min(p, Len(data) + 3),
           Min(p + n - 1, Len(data) + 3))

\* PyUnicode_FromStringAndSize takes s for UTF-8: every byte is an ASCII
\* byte, the first byte of a well-formed character, or a continuation byte
\* of one (utf8_decode, which also gives the text, says the same)
utf8_valid(s) ==
    \A k \in DOMAIN s :
        \/ s[k] < 128
        \/ ~IsCont(s[k]) /\ utf8_width(SubSeq(s, k, Len(s))) > 0
        \/ /\ IsCont(s[k])
           /\ \E d \in 1..3 :
                /\ k - d >= 1
                /\ s[k - d] >= 128 /\ ~IsCont(s[k - d])
                /\ utf8_width(SubSeq(s, k - d, Len(s))) > d

\* the second pass at the null slot of a column: nothing is checked against
\* end; the payload of a string is skipped only when the null slot is clear
fill_string(ctype, is_null, i64, data, p, beyond, cells) ==
    IF is_null THEN ScanOk(p, Append(cells, 9))
    ELSE IF i64 < 0 THEN ScanError(p, "SystemError", cells)
    ELSE IF i64 = HUGE THEN ScanError(p, "MemoryError", cells)
    ELSE IF ctype > 0 /\ ~utf8_valid(text_head(data, p, i64, beyond))
    THEN ScanError(p + i64, "UnicodeDecodeError", cells)
    ELSE ScanOk(p + i64, Append(cells, 9 + i64))

fill_cell(ctype, data, pos, beyond, cells) ==
    IF ctype = MYSQL_TYPE_NULL THEN ScanOk(pos + 2, Append(cells, 2))
    ELSE IF ctype \in load_todo_types THEN ScanOk(pos + 1, Append(cells, 1))
    ELSE IF int_width(ctype) > 0
    THEN ScanOk(pos + 1 + int_width(ctype), Append(cells, 1 + int_width(ctype)))
    ELSE IF Abs(ctype) \in StringTypes
    THEN fill_string(ctype, mem_byte(data, pos, beyond) = 1,
                     i64_at(data, pos + 1, beyond), data, pos + 9,
                     beyond, cells)
    ELSE ScanError(pos + 1, "none", cells)

RECURSIVE fill_cells(_, _, _, _, _)
fill_cells(ctypes, data, i, beyond, c) ==
    IF c.kind # "ok" \/ i > Len(ctypes) THEN c
    ELSE fill_cells(ctypes, data, i + 1, beyond,
                    fill_cell(ctypes[i], data, c.pos, beyond, c.cells))

\* one turn of the second pass's while (end > data), for j < n_rows
fill_row(ctypes, data, pos, beyond) ==
    fill_cells(ctypes, data, 1, beyond, ScanOk(pos + 8, <<>>))

\* ---------------------------------- the two loaders, one turn at a time
\* The length fields of the string cells: those of short texts, one longer
\* than any buffer, the largest int64_t, and three negative ones.
SampleLengths == {0, 1, 2, 200, HUGE, 0 - 1, 0 - 9, 0 - 17}
CursorColspecs ==
    { <<MYSQL_TYPE_VARCHAR>>, <<0 - MYSQL_TYPE_VARCHAR>>, <<MYSQL_TYPE_LONG>>,
      <<MYSQL_TYPE_TINY, MYSQL_TYPE_VARCHAR>>,
      <<MYSQL_TYPE_VARCHAR, MYSQL_TYPE_TINY>> }
Loaders == {"load_rowdat_1", "load_rowdat_1_numpy"}
StringCells == [is_null : BOOLEAN, len : SampleLengths]

\* a string cell: the null slot, the length, and the text when the length is
\* that of a short text.  A NULL cell handed to load_rowdat_1 has no text (see
\* InitNullCells for one that has).
StringCellBytes(fn, c) ==
    << IF c.is_null THEN 1 ELSE 0 >> \o Narrow(Wide(c.len), 8)
    \o (IF c.len \in PayloadSizes /\ (~c.is_null \/ fn = "load_rowdat_1_numpy")
        THEN [k \in 1..c.len |-> 97] ELSE <<>>)
RECURSIVE CursorCellsBytes(_, _, _, _)
\* the cells of a row from column i on; an integer cell holds 9
CursorCellsBytes(fn, ctypes, c, i) ==
    IF i > Len(ctypes) THEN <<>>
    ELSE (IF int_width(ctypes[i]) > 0 THEN CellBytes(ctypes[i], FALSE, 9)
          ELSE StringCellBytes(fn, c))
         \o CursorCellsBytes(fn, ctypes, c, i + 1)
RECURSIVE CursorBytes(_, _, _, _)
\* rows r and following: the id 42 + r and the cells
CursorBytes(fn, ctypes, cells, r) ==
    IF r > Len(cells) THEN <<>>
    ELSE Narrow(Wide(42 + r), 8) \o CursorCellsBytes(fn, ctypes, cells[r], 1)
         \o CursorBytes(fn, ctypes, cells, r + 1)

\* a call of a loader that has parsed its arguments and stands before the
\* first turn of its first loop
InitCursor ==
    /\ AtRest
    /\ \E fn \in Loaders : \E ctypes \in CursorColspecs : \E m \in 1..MaxRows :
       \E cells \in [1..m -> StringCells] : \E beyond \in BeyondBytes :
         unit = [op |-> "cursor", fn |-> fn,
                 phase |-> IF fn = "load_rowdat_1" THEN "rows" ELSE "sizing",
                 ctypes |-> ctypes, data |-> CursorBytes(fn, ctypes, cells, 1),
                 beyond |-> beyond, pos |-> 1, n_rows |-> 0, j |-> 0,
                 exc |-> "none", at |-> "none", made |-> cells,
                 sized |-> <<>>, filled |-> <<>>]

Failed(exc) ==
    [unit EXCEPT !.phase = "error", !.at = unit.phase,
                 !.exc = IF exc = "none" THEN "SystemError" ELSE exc]

\* after a turn of the first pass: r is what it gave.  No pass that ends
\* counts MaxCount rows; sized keeps the cells of the rows first counted.
SizingTurn(r) ==
    IF r.kind = "error" THEN Failed(r.exc)
    ELSE IF r.kind = "outside" THEN [unit EXCEPT !.phase = "outside", !.pos = r.pos]
    ELSE [unit EXCEPT !.pos = r.pos,
                      !.n_rows = (unit.n_rows + 1) % MaxCount,
                      !.sized = IF Len(@) < MaxCount * Len(unit.ctypes)
                                THEN @ \o r.cells ELSE @]

\* load_rowdat_1_numpy: a turn of the loop that counts the rows, or its end,
\* after which the cursor is set back to the start
SizingRow ==
    /\ unit.op = "cursor"
    /\ unit.phase = "sizing"
    /\ unit' = IF unit.pos > Len(unit.data)
               THEN [unit EXCEPT !.phase = "fill", !.pos = 1]
               ELSE SizingTurn(sizing_row(unit.ctypes, unit.data, unit.pos))
    /\ Resting

FillTurn(r) ==
    IF r.kind = "error" THEN [Failed(r.exc) EXCEPT !.filled = @ \o r.cells]
    ELSE [unit EXCEPT !.pos = r.pos, !.j = @ + 1, !.filled = @ \o r.cells]

\* load_rowdat_1_numpy: a turn of the loop that fills the arrays, or its end
FillRow ==
    /\ unit.op = "cursor"
    /\ unit.phase = "fill"
    /\ unit' = IF unit.pos > Len(unit.data)
               THEN [unit EXCEPT !.phase = "returned"]
               ELSE IF unit.j >= unit.n_rows THEN Failed("none")
               ELSE FillTurn(fill_row(unit.ctypes, unit.data, unit.pos, unit.beyond))
    /\ Resting

\* load_rowdat_1 at the null slot of a column, for the cursor alone
\* (load_cell gives the items as well): the length of a string is read, and
\* its text skipped only when the null slot is clear
load_cell_end(ctype, data, pos, beyond, cells) ==
    IF ctype = MYSQL_TYPE_NULL THEN ScanOk(pos + 2, Append(cells, 2))
    ELSE IF ctype \in load_todo_types THEN ScanOk(pos + 1, Append(cells, 1))
    ELSE IF int_width(ctype) > 0
    THEN ScanOk(pos + 1 + int_width(ctype), Append(cells, 1 + int_width(ctype)))
    ELSE IF Abs(ctype) \in StringTypes /\ mem_byte(data, pos, beyond) = 1
    THEN ScanOk(pos + 9, Append(cells, 9))
    ELSE IF Abs(ctype) \in StringTypes
    THEN IF i64_at(data, pos + 1, beyond) < 0
         THEN ScanError(pos + 9, "SystemError", cells)
         ELSE IF i64_at(data, pos + 1, beyond) = HUGE
         THEN ScanError(pos + 9, "MemoryError", cells)
         ELSE IF ctype > 0
                 /\ ~utf8_valid(text_head(data, pos + 9,
                                         i64_at(data, pos + 1, beyond), beyond))
         THEN ScanError(pos + 9 + i64_at(data, pos + 1, beyond),
                        "UnicodeDecodeError", cells)
         ELSE ScanOk(pos + 9 + i64_at(data, pos + 1, beyond),
                     Append(cells, 9 + i64_at(data, pos + 1, beyond)))
    ELSE ScanError(pos, "none", cells)

RECURSIVE load_cells_end(_, _, _, _, _)
load_cells_end(ctypes, data, i, beyond, c) ==
    IF c.kind # "ok" \/ i > Len(ctypes) THEN c
    ELSE load_cells_end(ctypes, data, i + 1, beyond,
                        load_cell_end(ctypes[i], data, c.pos, beyond, c.cells))

RowTurn(c) ==
    IF c.kind = "error" THEN [Failed(c.exc) EXCEPT !.pos = c.pos]
    ELSE [unit EXCEPT !.pos = c.pos, !.j = @ + 1]

\* load_rowdat_1: a turn of its loop over the rows, or its end
LoadRowTurn ==
    /\ unit.op = "cursor"
    /\ unit.phase = "rows"
    /\ unit' = IF unit.pos > Len(unit.data)
               THEN [unit EXCEPT !.phase = "returned"]
               ELSE RowTurn(load_cells_end(unit.ctypes, unit.data, 1, unit.beyond,
                                           ScanOk(unit.pos + 8, <<>>)))
    /\ Resting

NextCursor == SizingRow \/ FillRow \/ LoadRowTurn

SpecCursor == InitCursor /\ [][NextCursor]_vars

\* a call that has started goes on until it returns or raises
FairCursor == SpecCursor /\ WF_vars(NextCursor)


\* the cursor of load_rowdat_1 goes as load_cells, which builds the row, has it
CursorAsLoadCells ==
    (unit.op = "cursor" /\ unit.phase = "rows" /\ unit.pos <= Len(unit.data)) =>
        /\ load_cells_end(unit.ctypes, unit.data, 1, unit.beyond,
                          ScanOk(unit.pos + 8, <<>>)).pos
             = load_cells(unit.ctypes, unit.data, unit.pos + 8, 1, unit.beyond, <<>>).pos
        /\ (load_cells_end(unit.ctypes, unit.data, 1, unit.beyond,
                           ScanOk(unit.pos + 8, <<>>)).kind = "ok")
             = load_cells(unit.ctypes, unit.data, unit.pos + 8, 1, unit.beyond, <<>>).ok

\* ---- C29
IsPrefix(s, t) == Len(s) <= Len(t) /\ SubSeq(t, 1, Len(s)) = s
InColumnLoader == unit.op = "cursor" /\ unit.fn = "load_rowdat_1_numpy"
\* the second pass has begun
Filling ==
    /\ InColumnLoader
    /\ unit.phase \in {"fill", "returned"} \/ (unit.phase = "error" /\ unit.at = "fill")
\* what is claimed of the second pass: cell by cell it takes the bytes the
\* first pass took, it stays inside the buffer, it is at the end of the
\* buffer after n_rows rows and not before
SamePasses ==
    /\ IsPrefix(unit.filled, unit.sized)
    /\ unit.pos <= Len(unit.data) + 1
    /\ unit.j <= unit.n_rows
    /\ (unit.pos > Len(unit.data)) = (unit.j = unit.n_rows)
\* a string cell marked NULL has a length field that is not 0
NullWithLength ==
    /\ \E i \in DOMAIN unit.ctypes : int_width(unit.ctypes[i]) = 0
    /\ \E r \in DOMAIN unit.made : unit.made[r].is_null /\ unit.made[r].len # 0

\* C29: in load_rowdat_1_numpy the pass that counts the rows and the pass
\* that fills the arrays take the same number of bytes for every cell, NULL
\* or not; so the second pass visits the n_rows rows the first counted, never
\* goes on to a row of index n_rows or more, and ends at the end of the input.
C29_AsStated == Filling => SamePasses

\* so it is when the length of every string cell marked NULL is 0
C29_NullsOfNoLength == (Filling /\ ~NullWithLength) => SamePasses

\* the second pass never fills a row of index n_rows or more
C29_NoRowBeyondCount ==
    (InColumnLoader /\ unit.phase # "sizing") =>
        /\ unit.j <= unit.n_rows
        /\ Len(unit.sized) = unit.n_rows * Len(unit.ctypes)

\* one VARCHAR column, one row whose cell is marked NULL, has the length 1
\* and the text "a": the first pass counted one row of 18 bytes, the second
\* took 17 and failed at the byte left
C29_Witness ==
    /\ InColumnLoader
    /\ unit.ctypes = <<MYSQL_TYPE_VARCHAR>>
    /\ unit.data = <<43, 0, 0, 0, 0, 0, 0, 0, 1, 1, 0, 0, 0, 0, 0, 0, 0, 97>>
    /\ unit.phase = "error" /\ unit.at = "fill"
    /\ unit.sized = <<10>> /\ unit.filled = <<9>>
    /\ unit.n_rows = 1 /\ unit.j = 1 /\ unit.pos = 18


\* ---- C30
\* the call has returned, has raised, or has left the buffer at its front
Ended == unit.op = "cursor" /\ unit.phase \in {"returned", "error", "outside"}

\* C30: for every buffer and every colspec load_rowdat_1 and
\* load_rowdat_1_numpy terminate, whatever the bytes hold, a negative or an
\* oversized length field included.
C30_AsStated == <>Ended

\* every turn of a loop over the rows leaves the cursor further on
C30_Advances ==
    [][(unit.phase \in {"sizing", "fill", "rows"} /\ unit'.phase = unit.phase)
         => unit'.pos > unit.pos]_vars

\* load_rowdat_1 terminates, and so does the second pass of
\* load_rowdat_1_numpy once the first has ended
C30_OtherLoopsEnd == (unit.phase \in {"rows", "fill"}) ~> Ended

\* the turns of load_rowdat_1 and of the second pass leave the cursor further on
C30_OtherLoopsAdvance ==
    [][(unit.phase \in {"fill", "rows"} /\ unit'.phase = unit.phase)
         => unit'.pos > unit.pos]_vars

\* a length that is not negative ends the first pass
C30_NoNegativeEnds ==
    (\A r \in DOMAIN unit.made : unit.made[r].len >= 0) ~> Ended

\* one VARCHAR column and one row whose length field holds -17: the first
\* pass of load_rowdat_1_numpy is back at the first byte, turn after turn
C30_Witness ==
    /\ InColumnLoader
    /\ unit.ctypes = <<MYSQL_TYPE_VARCHAR>>
    /\ unit.data = <<43, 0, 0, 0, 0, 0, 0, 0, 0,
                     239, 255, 255, 255, 255, 255, 255, 255>>
    /\ unit.phase = "sizing" /\ unit.pos = 1 /\ unit.n_rows = MaxCount - 1

====
